---- MODULE Spec2Model ----
(***************************************************************************)
(* Form discovery and test-synthesis pipeline of QAAItestgenerator.        *)
(*                                                                         *)
(* The module holds one state machine per component, each with its own     *)
(* specification over the shared variable tuple `vars`:                    *)
(*   SpecCls    generate_form_selectors over arbitrary label strings       *)
(*   SpecSynth  create_test_script: selectors, then implementations        *)
(* A specification pins the variables of the other components to their     *)
(* idle values.                                                            *)
(*                                                                         *)
(* Python strings that the code inspects (labels, response contents) are   *)
(* sequences of one-character strings, so that `in`, startswith, endswith, *)
(* strip, lower and slicing are computed as the code computes them.        *)
(***************************************************************************)
EXTENDS Integers, Sequences, FiniteSets, TLC

VARIABLES
    variant,          \* which generator module runs: "tcg" (test_case_generator.py) or "spa" (spa_test_case_generator.py)
    test_data,        \* the document create_test_script receives: [form_type, test_cases]
    syn_pc,           \* position inside create_test_script
    form_selectors,   \* dict role -> selector expression (a function on role names)
    test_implementations, \* dict test_id -> implementation body
    script,           \* the test units written into the script, in order
    syn_exc,          \* the exception that left create_test_script, or NoExc
    forms,            \* main: the Schemas returned by the extractor
    gen_i,            \* main: number of Schemas whose loop iteration has completed
    gen_pc,           \* main: "loop" | "done" | "raised"
    response,         \* the last answer of the text-generation service
    gen_result,       \* what the last generate_test_cases call returned (or NoDoc)
    all_test_data,    \* main: the documents appended so far
    gen_exc,          \* the exception that left main, or "none"
    ext_variant,      \* which extractor runs: "dyn" | "spa_tcg" | "spa_fe"
    element,          \* the candidate element handed to the extractor
    ext_pc,           \* "start" | "done"
    ext_result,       \* what the extractor produced for the element
    disc_variant,     \* which crawler runs: "dyn" (Crawler_dynamic.py) | "js" (Crawler_js_enhanced.py)
    dom,              \* the page: its candidate-relevant nodes in document order
    disc_pc,          \* position inside extract_forms_from_url
    failed_strategy,  \* the strategy whose query raised, 0 when none did
    disc_forms,       \* the local list `forms`: the concatenated strategy matches
    sig_reads,        \* what the dedup loop read as signature at each position of `forms`
    unique_forms,     \* the deduplicated handles
    data,             \* the list extract_forms_from_url builds and returns
    spa_variant,      \* which module's extract_spa_forms runs: "spa_fe" | "spa_tcg"
    site,             \* the site: the nodes of the origin page and its clickable elements
    page_url,         \* page.url: "origin" (the url argument) | "other" | "blank" (nothing loaded)
    revealed,         \* nodes a click added to the origin page, after the static ones
    spa_pc,           \* position inside extract_spa_forms, then "returned"
    spa_failed,       \* the query that raised inside the outer try, 0 when none did
    forms_data,       \* the list extract_spa_forms builds; what it returned once spa_pc = "returned"
    initial_data,     \* forms_data as it stood when trigger exploration started
    form_triggers,    \* the triggers kept by the keyword filter (positions in site.triggers)
    trig_i,           \* iterations of the click loop completed
    custom_widgets,   \* test_case_generator: the widgets matched inside one form
    wid_pc,           \* "start" | "done"
    widget_info,      \* the list the widget loop builds
    clicks,           \* the clicks attempted so far: the trigger, page.url and forms_data at
                      \* the attempt, and where the iteration raised
    run_variant,      \* which runner runs: "all" (run_all_tests.py) | "fixed" (run_all_fixed_tests.py)
    test_files,       \* the relative paths discovery returned: [parent, name]
    run_i,            \* iterations of the runner loop completed
    run_pc,           \* position inside the loop body, then "done"
    cwd,              \* the working directory of the process
    original_dir,     \* what os.getcwd() returned at the start of the last run_* call
    results,          \* self.results
    run_result        \* what the last run_* call returned

synthVars == <<test_data, syn_pc, form_selectors, test_implementations, script, syn_exc>>

genVars == <<forms, gen_i, gen_pc, response, gen_result, all_test_data, gen_exc>>

extVars == <<ext_variant, element, ext_pc, ext_result>>

discVars == <<disc_variant, dom, disc_pc, failed_strategy, disc_forms, sig_reads, unique_forms, data>>

spaVars == <<spa_variant, site, page_url, revealed, spa_pc, spa_failed, forms_data, initial_data,
             form_triggers, trig_i, clicks>>

widVars == <<custom_widgets, wid_pc, widget_info>>

runVars == <<run_variant, test_files, run_i, run_pc, cwd, original_dir, results, run_result>>

vars == <<variant, test_data, syn_pc, form_selectors, test_implementations, script, syn_exc,
          forms, gen_i, gen_pc, response, gen_result, all_test_data, gen_exc,
          ext_variant, element, ext_pc, ext_result,
          disc_variant, dom, disc_pc, failed_strategy, disc_forms, sig_reads, unique_forms, data,
          spa_variant, site, page_url, revealed, spa_pc, spa_failed, forms_data, initial_data,
          form_triggers, trig_i, clicks, custom_widgets, wid_pc, widget_info,
          run_variant, test_files, run_i, run_pc, cwd, original_dir, results, run_result>>

(***************************************************************************)
(* Strings as character sequences                                          *)
(***************************************************************************)
kwSearch       == <<"s","e","a","r","c","h">>
kwLogin        == <<"l","o","g","i","n">>
kwContact      == <<"c","o","n","t","a","c","t">>
kwRegistration == <<"r","e","g","i","s","t","r","a","t","i","o","n">>

\* str.lower() on the characters the model uses
LowerChar(c) ==
    CASE c = "S" -> "s" [] c = "E" -> "e" [] c = "A" -> "a" [] c = "R" -> "r"
      [] c = "C" -> "c" [] c = "H" -> "h" [] c = "L" -> "l" [] c = "O" -> "o"
      [] c = "G" -> "g" [] c = "I" -> "i" [] c = "N" -> "n" [] c = "U" -> "u"
      [] c = "K" -> "k" [] c = "W" -> "w" [] c = "T" -> "t" [] c = "F" -> "f"
      [] c = "M" -> "m" [] c = "Y" -> "y" [] c = "P" -> "p" [] c = "J" -> "j"
      [] OTHER -> c

Lower(s) == [i \in 1..Len(s) |-> LowerChar(s[i])]

\* Python `kw in s` for strings: kw is a contiguous substring of s
Contains(s, kw) ==
    \E i \in 1..(Len(s) - Len(kw) + 1) : SubSeq(s, i, i + Len(kw) - 1) = kw

(***************************************************************************)
(* Selector synthesis: generate_form_selectors                             *)
(***************************************************************************)
\* dict.update: the entries of `more` are added to, or replace, those of `d`
Update(d, more) ==
    [k \in DOMAIN d \cup DOMAIN more |-> IF k \in DOMAIN more THEN more[k] ELSE d[k]]

GenericSelectors ==
    [r \in {"input", "button", "select", "textarea", "form"} |->
        CASE r = "input"    -> "input[type=text], input[type=search], input[type=email], input[type=password]"
          [] r = "button"   -> "button, input[type=submit], input[type=button]"
          [] r = "select"   -> "select"
          [] r = "textarea" -> "textarea"
          [] r = "form"     -> "form"]

SearchSelectors ==
    [r \in {"search_input", "search_button", "results"} |->
        CASE r = "search_input"  -> "input[type=search], input[placeholder*=search], input[name*=search], input[id*=search]"
          [] r = "search_button" -> "button[type=submit], input[type=submit], button:has-text(Search)"
          [] r = "results"       -> ".search-results, .results, [class*=result], [id*=result]"]

LoginSelectors ==
    [r \in {"username", "password", "login_button"} |->
        CASE r = "username"     -> "input[name=username], input[name=email], input[type=email]"
          [] r = "password"     -> "input[name=password], input[type=password]"
          [] r = "login_button" -> "button[type=submit], input[type=submit]"]

ContactSelectors ==
    [r \in {"name", "email", "message", "submit"} |->
        CASE r = "name"    -> "input[name=name], input[name=fullname]"
          [] r = "email"   -> "input[name=email], input[type=email]"
          [] r = "message" -> "textarea[name=message], textarea[name=comment]"
          [] r = "submit"  -> "button[type=submit], input[type=submit]"]

RegistrationSelectors ==
    [r \in {"name", "email", "password", "confirm_password", "submit"} |->
        CASE r = "name"             -> "input[name=name], input[name=fullname], input[name=firstname]"
          [] r = "email"            -> "input[name=email], input[type=email]"
          [] r = "password"         -> "input[name=password], input[type=password]"
          [] r = "confirm_password" -> "input[name=confirm_password], input[name=password_confirm]"
          [] r = "submit"           -> "button[type=submit], input[type=submit]"]

\* the chain written with independent ifs instead of elif: every keyword found adds its roles
IndependentIfs_generate_form_selectors(td) ==
    LET form_type == Lower(td.form_type)
        s1 == IF Contains(form_type, kwSearch) THEN Update(GenericSelectors, SearchSelectors) ELSE GenericSelectors
        s2 == IF Contains(form_type, kwLogin) THEN Update(s1, LoginSelectors) ELSE s1
        s3 == IF Contains(form_type, kwContact) THEN Update(s2, ContactSelectors) ELSE s2
    IN  IF Contains(form_type, kwRegistration) THEN Update(s3, RegistrationSelectors) ELSE s3

\* the chain with its first two branches exchanged: login is tested before search
LoginFirst_generate_form_selectors(td) ==
    LET form_type == Lower(td.form_type) IN
    IF Contains(form_type, kwLogin) THEN Update(GenericSelectors, LoginSelectors)
    ELSE IF Contains(form_type, kwSearch) THEN Update(GenericSelectors, SearchSelectors)
    ELSE IF Contains(form_type, kwContact) THEN Update(GenericSelectors, ContactSelectors)
    ELSE IF Contains(form_type, kwRegistration) THEN Update(GenericSelectors, RegistrationSelectors)
    ELSE GenericSelectors

\* test_case_generator.generate_form_selectors: four-way if/elif chain
tcg_generate_form_selectors(td) ==
    LET form_type == Lower(td.form_type) IN
    IF Contains(form_type, kwSearch) THEN Update(GenericSelectors, SearchSelectors)
    ELSE IF Contains(form_type, kwLogin) THEN Update(GenericSelectors, LoginSelectors)
    ELSE IF Contains(form_type, kwContact) THEN Update(GenericSelectors, ContactSelectors)
    ELSE IF Contains(form_type, kwRegistration) THEN Update(GenericSelectors, RegistrationSelectors)
    ELSE GenericSelectors

\* spa_test_case_generator.generate_form_selectors: the chain ends after contact
spa_generate_form_selectors(td) ==
    LET form_type == Lower(td.form_type) IN
    IF Contains(form_type, kwSearch) THEN Update(GenericSelectors, SearchSelectors)
    ELSE IF Contains(form_type, kwLogin) THEN Update(GenericSelectors, LoginSelectors)
    ELSE IF Contains(form_type, kwContact) THEN Update(GenericSelectors, ContactSelectors)
    ELSE GenericSelectors

generate_form_selectors(v, td) ==
    IF v = "tcg" THEN tcg_generate_form_selectors(td) ELSE spa_generate_form_selectors(td)

(***************************************************************************)
(* Implementation synthesis: generate_*_test                               *)
(***************************************************************************)
EmptyDict == [k \in {} |-> ""]

\* dict.get(key, default)
Get(d, key, default) == IF key \in DOMAIN d THEN d[key] ELSE default

\* The value a generator returns or the KeyError it raises.  A body records the
\* recipe, the selectors interpolated into it (role -> selector) and the
\* literal values it fills in.
Body(recipe, uses, fill) ==
    [kind |-> "body", recipe |-> recipe, uses |-> uses, fill |-> fill, key |-> ""]

KeyError(role) ==
    [kind |-> "KeyError", recipe |-> "", uses |-> EmptyDict, fill |-> <<>>, key |-> role]

NoImplementation ==
    [kind |-> "none", recipe |-> "", uses |-> EmptyDict, fill |-> <<>>, key |-> ""]

NoExc == [kind |-> "none", recipe |-> "", uses |-> EmptyDict, fill |-> <<>>, key |-> ""]

\* An f-string template that evaluates selectors[r] for the roles r of `roles`,
\* left to right: the first role missing from the dict raises KeyError.
Template(recipe, selectors, roles, fill) ==
    LET missing == {i \in 1..Len(roles) : roles[i] \notin DOMAIN selectors} IN
    IF missing = {}
    THEN Body(recipe, [r \in {roles[i] : i \in 1..Len(roles)} |-> selectors[r]], fill)
    ELSE KeyError(roles[CHOOSE i \in missing : \A j \in missing : i <= j])

generate_default_implementation(tc, selectors) ==
    Template("default", selectors, <<"form", "input", "button">>, <<"test input">>)

\* test_case_generator.py only
generate_validation_test(tc, selectors) ==
    Template("validation", selectors, <<"form", "input", "button">>, <<>>)

\* `"search" in form_type`, and in the SPA generator also `"search_input" in selectors`
TypeIs(v, tc, selectors, kw, role) ==
    /\ Contains(Lower(tc.form_type), kw)
    /\ (v = "spa" => role \in DOMAIN selectors)

generate_positive_test(v, tc, selectors) ==
    IF TypeIs(v, tc, selectors, kwSearch, "search_input")
    THEN Template("positive_search", selectors, <<"search_input", "search_button", "results">>,
                  <<Get(tc.test_data, "search_input", "test123")>>)
    ELSE IF TypeIs(v, tc, selectors, kwLogin, "username")
    THEN Template("positive_login", selectors, <<"username", "password", "login_button">>,
                  <<Get(tc.test_data, "username", "test@example.com"),
                    Get(tc.test_data, "password", "password123")>>)
    ELSE generate_default_implementation(tc, selectors)

generate_negative_test(v, tc, selectors) ==
    IF TypeIs(v, tc, selectors, kwSearch, "search_input")
    THEN Template("negative_search", selectors, <<"search_input", "search_button", "results">>,
                  <<Get(tc.test_data, "search_input", "!@#$%^&*()")>>)
    ELSE generate_default_implementation(tc, selectors)

generate_edge_case_test(v, tc, selectors) ==
    IF TypeIs(v, tc, selectors, kwSearch, "search_input")
    THEN Template("edge_case_search", selectors, <<"search_input", "search_button", "results">>,
                  <<Get(tc.test_data, "search_input", "")>>)
    ELSE generate_default_implementation(tc, selectors)

\* test_case_generator.py: the template reads selectors["search_input"] whatever the form type
tcg_generate_accessibility_test(tc, selectors) ==
    Template("accessibility", selectors, <<"search_input">>, <<>>)

\* spa_test_case_generator.py: the input role is resolved first, with selectors.get("input", ...)
\* as the fallback
spa_generate_accessibility_test(tc, selectors) ==
    LET role == IF TypeIs("spa", tc, selectors, kwSearch, "search_input") THEN "search_input"
                ELSE IF TypeIs("spa", tc, selectors, kwLogin, "username") THEN "username"
                ELSE IF TypeIs("spa", tc, selectors, kwContact, "name") THEN "name"
                ELSE "input"
        sel  == Get(selectors, role, GenericSelectors["input"])
    IN  Body("accessibility", [r \in {role} |-> sel], <<>>)

generate_accessibility_test(v, tc, selectors) ==
    IF v = "tcg" THEN tcg_generate_accessibility_test(tc, selectors)
    ELSE spa_generate_accessibility_test(tc, selectors)

generate_dynamic_test(v, tc, selectors) ==
    IF TypeIs(v, tc, selectors, kwSearch, "search_input")
    THEN Template("dynamic_search", selectors, <<"search_input">>,
                  <<Get(tc.test_data, "search_input", "engine")>>)
    ELSE generate_default_implementation(tc, selectors)

\* The if/elif chain of generate_test_implementations for one test case; the
\* SPA generator has no validation branch, and neither has an else branch.
Dispatch(v, tc, selectors) ==
    CASE tc.test_type = "positive"      -> generate_positive_test(v, tc, selectors)
      [] tc.test_type = "negative"      -> generate_negative_test(v, tc, selectors)
      [] tc.test_type = "edge_case"     -> generate_edge_case_test(v, tc, selectors)
      [] tc.test_type = "accessibility" -> generate_accessibility_test(v, tc, selectors)
      [] tc.test_type = "dynamic"       -> generate_dynamic_test(v, tc, selectors)
      [] tc.test_type = "validation" /\ v = "tcg" -> generate_validation_test(tc, selectors)
      [] OTHER -> NoImplementation

\* generate_test_implementations: implementations[test_id] = ... for each test
\* case in order; an exception in one generator leaves the function at once.
RECURSIVE gti_loop(_, _, _, _)
gti_loop(v, cases, selectors, impls) ==
    IF cases = <<>> THEN [exc |-> NoExc, implementations |-> impls]
    ELSE LET tc == Head(cases)
             r  == Dispatch(v, tc, selectors)
         IN  IF r.kind = "KeyError" THEN [exc |-> r, implementations |-> impls]
             ELSE IF r.kind = "none" THEN gti_loop(v, Tail(cases), selectors, impls)
             ELSE gti_loop(v, Tail(cases), selectors, Update(impls, [k \in {tc.test_id} |-> r]))

generate_test_implementations(v, td, selectors) ==
    gti_loop(v, td.test_cases, selectors, EmptyDict)

\* The emission loop of create_test_script: one unit per test case, its body
\* test_implementations.get(test_id, generate_default_implementation(...)).
\* The default is an argument of get, so it is built for every test case.
RECURSIVE emit_loop(_, _, _, _)
emit_loop(cases, selectors, impls, out) ==
    IF cases = <<>> THEN [exc |-> NoExc, script |-> out]
    ELSE LET tc  == Head(cases)
             dfl == generate_default_implementation(tc, selectors)
         IN  IF dfl.kind = "KeyError" THEN [exc |-> dfl, script |-> out]
             ELSE emit_loop(Tail(cases), selectors, impls,
                            Append(out, [test_id |-> tc.test_id, test_type |-> tc.test_type,
                                         implementation |-> Get(impls, tc.test_id, dfl)]))

(***************************************************************************)
(* create_test_script as a state machine                                   *)
(***************************************************************************)
Variants == {"tcg", "spa"}

TestTypes == {"positive", "negative", "edge_case", "accessibility", "dynamic", "validation"}

\* a test_type outside the six categories, as the generation service may return
OtherTestType == "performance"

TestIds == {"TC001", "TC002"}

\* What the test cases of one generated document carry beside the TestDescriptor
\* fields: a form_type key (<<>> is also what .get("form_type", "") gives when the
\* key is absent) and the test_data mapping.  The service describes one form per
\* document, so the cases of a document share these.
CaseShapes ==
    { [form_type |-> <<>>,     test_data |-> EmptyDict],
      [form_type |-> kwSearch, test_data |-> EmptyDict],
      [form_type |-> kwSearch, test_data |-> [k \in {"search_input"} |-> "playwright"]],
      [form_type |-> kwLogin,  test_data |-> EmptyDict] }

TestCases(shape) ==
    [test_id : TestIds, test_type : TestTypes \cup {OtherTestType},
     form_type : {shape.form_type}, test_data : {shape.test_data}]

MaxCases == 2

RECURSIVE SeqsUpTo(_, _)
SeqsUpTo(S, n) ==
    IF n = 0 THEN {<<>>}
    ELSE LET shorter == SeqsUpTo(S, n - 1) IN
         shorter \cup {Append(q, x) : q \in {p \in shorter : Len(p) = n - 1}, x \in S}

\* the five form types as labels the generation service gives them
TypeLabels ==
    { <<"S","e","a","r","c","h"," ","f","o","r","m">>,
      <<"L","o","g","i","n"," ","f","o","r","m">>,
      <<"c","o","n","t","a","c","t"," ","f","o","r","m">>,
      <<"U","s","e","r"," ","r","e","g","i","s","t","r","a","t","i","o","n">>,
      <<"U","n","k","n","o","w","n"," ","f","o","r","m"," ","t","y","p","e">> }

\* fragments labels are assembled from in SpecCls: keywords in either case, keywords split
\* over two fragments, and fragments holding no keyword
LabelWords ==
    { kwSearch, <<"L","O","G","I","N">>, kwContact, kwRegistration,
      <<"l","o","g">>, <<"i","n">>, <<" ","f","o","r","m">>, <<"s","i","g","n","u","p">> }

MaxWords == 2

RECURSIVE Concat(_)
Concat(ws) == IF ws = <<>> THEN <<>> ELSE Head(ws) \o Concat(Tail(ws))

Labels == {Concat(ws) : ws \in SeqsUpTo(LabelWords, MaxWords)}

SynthIdle ==
    /\ test_data = [form_type |-> <<>>, test_cases |-> <<>>]
    /\ syn_pc = "idle"
    /\ form_selectors = EmptyDict
    /\ test_implementations = EmptyDict
    /\ script = <<>>
    /\ syn_exc = NoExc

SynthStart(labels, shapes, n) ==
    /\ \E shape \in shapes :
         test_data \in [form_type : labels, test_cases : SeqsUpTo(TestCases(shape), n)]
    /\ syn_pc = "start"
    /\ form_selectors = EmptyDict
    /\ test_implementations = EmptyDict
    /\ script = <<>>
    /\ syn_exc = NoExc

\* form_selectors = generate_form_selectors(test_data)
GenerateFormSelectors ==
    /\ syn_pc = "start"
    /\ form_selectors' = generate_form_selectors(variant, test_data)
    /\ syn_pc' = "selectors"
    /\ UNCHANGED <<test_data, test_implementations, script, syn_exc>>

\* test_implementations = generate_test_implementations(test_data, form_selectors)
GenerateTestImplementations ==
    /\ syn_pc = "selectors"
    /\ LET r == generate_test_implementations(variant, test_data, form_selectors) IN
        /\ test_implementations' = r.implementations
        /\ syn_exc' = r.exc
        /\ syn_pc' = IF r.exc.kind = "KeyError" THEN "raised" ELSE "implementations"
    /\ UNCHANGED <<test_data, form_selectors, script>>

\* the loop that appends one test method per test case to script_content
EmitScript ==
    /\ syn_pc = "implementations"
    /\ LET r == emit_loop(test_data.test_cases, form_selectors, test_implementations, <<>>) IN
        /\ script' = r.script
        /\ syn_exc' = r.exc
        /\ syn_pc' = IF r.exc.kind = "KeyError" THEN "raised" ELSE "script"
    /\ UNCHANGED <<test_data, form_selectors, test_implementations>>

(***************************************************************************)
(* The text-generation boundary: generate_test_cases and the loop of main  *)
(***************************************************************************)
Whitespace == {" ", "\n"}

RECURSIVE LStrip(_)
LStrip(s) == IF s # <<>> /\ Head(s) \in Whitespace THEN LStrip(Tail(s)) ELSE s

RECURSIVE RStrip(_)
RStrip(s) ==
    IF s # <<>> /\ s[Len(s)] \in Whitespace THEN RStrip(SubSeq(s, 1, Len(s) - 1)) ELSE s

\* str.strip()
Strip(s) == RStrip(LStrip(s))

StartsWith(s, p) == Len(s) >= Len(p) /\ SubSeq(s, 1, Len(p)) = p

EndsWith(s, p) == Len(s) >= Len(p) /\ SubSeq(s, Len(s) - Len(p) + 1, Len(s)) = p

\* the backquote character (written as a name: the lexer does not take it in a string)
BQ == "BQ"

Fence     == <<BQ, BQ, BQ>>
FenceJson == <<BQ, BQ, BQ, "j", "s", "o", "n">>

\* content[7:] after startswith(FenceJson), content[:-3] after endswith(Fence)
FencePrefixLen == 7
FenceSuffixLen == 3

StripFences(content) ==
    LET c1 == IF StartsWith(content, FenceJson)
              THEN SubSeq(content, FencePrefixLen + 1, Len(content)) ELSE content
    IN  IF EndsWith(c1, Fence) THEN SubSeq(c1, 1, Len(c1) - FenceSuffixLen) ELSE c1

\* A parsed document.  kind is "dict" or "list" (valid JSON need not be an object);
\* form_type <<>> stands for a missing key.
Doc(kind, form_type, cases) == [kind |-> kind, form_type |-> form_type, test_cases |-> cases]

NoDoc == Doc("none", <<>>, <<>>)

Case(id, type, form_type) ==
    [test_id |-> id, test_type |-> type, form_type |-> form_type, test_data |-> EmptyDict]

TextEmpty == <<"{","}">>
TextList  == <<"[","]">>
TextLogin == <<"{","\"","f","o","r","m","_","t","y","p","e","\"",":","\"","L","o","g","i","n"," ","f","o","r","m","\"",",","\"","t","e","s","t","_","c","a","s","e","s","\"",":","[","{","\"","t","e","s","t","_","i","d","\"",":","\"","T","C","0","0","1","\"",",","\"","t","e","s","t","_","t","y","p","e","\"",":","\"","a","c","c","e","s","s","i","b","i","l","i","t","y","\"","}","]","}">>
TextSearch == <<"{","\"","f","o","r","m","_","t","y","p","e","\"",":","\"","s","e","a","r","c","h","\"",",","\"","t","e","s","t","_","c","a","s","e","s","\"",":","[","{","\"","t","e","s","t","_","i","d","\"",":","\"","T","C","0","0","1","\"",",","\"","t","e","s","t","_","t","y","p","e","\"",":","\"","p","o","s","i","t","i","v","e","\"","}","]","}">>

\* The JSON texts of the model and the value json.loads gives for each
JsonDocs ==
    { [text |-> TextEmpty,  value |-> Doc("dict", <<>>, <<>>)],
      [text |-> TextList,   value |-> Doc("list", <<>>, <<>>)],
      [text |-> TextLogin,  value |-> Doc("dict", <<"L","o","g","i","n"," ","f","o","r","m">>, <<Case("TC001", "accessibility", <<>>)>>)],
      [text |-> TextSearch, value |-> Doc("dict", <<"s","e","a","r","c","h">>, <<Case("TC001", "positive", <<>>)>>)] }

\* the same texts cut short: truncated braces
TruncatedTexts ==
    { SubSeq(TextEmpty, 1, 1),
      SubSeq(TextLogin, 1, Len(TextLogin) - 2),
      SubSeq(TextSearch, 1, Len(TextSearch) - 1) }

\* json.loads: the value of a JSON text, or JSONDecodeError for any other text
IsJson(text) == \E d \in JsonDocs : d.text = text

json_loads(text) == (CHOOSE d \in JsonDocs : d.text = text).value

\* a fallback whose only test case has another category
FallbackDocNegative ==
    Doc("dict", <<"U","n","k","n","o","w","n"," ","f","o","r","m"," ","t","y","p","e">>, <<Case("TC001", "negative", <<>>)>>)

\* the fixed fallback document (form_type "Unknown form type", one test case)
FallbackDoc ==
    Doc("dict", <<"U","n","k","n","o","w","n"," ","f","o","r","m"," ","t","y","p","e">>, <<Case("TC001", "positive", <<>>)>>)

\* What the service can answer: the call raises (timeout, transport error), the
\* message has no content (None), or it has a text content.
Raises(exc) == [exc |-> exc, value |-> NoDoc]

Returns(doc) == [exc |-> "none", value |-> doc]

\* generate_test_cases(form_data) given the answer `resp` of the service.  The
\* prompt reads form_data['html_snippet']; the create() call is made before the
\* try block; the except clause names json.JSONDecodeError only.
generate_test_cases(form_data, resp) ==
    IF ~form_data.html_snippet THEN Raises("KeyError")
    ELSE IF resp.kind = "raise" THEN Raises("APIError")
    ELSE IF resp.kind = "none" THEN Raises("AttributeError")
    ELSE LET content == StripFences(Strip(resp.content))
         IN  IF IsJson(Strip(content)) THEN Returns(json_loads(Strip(content)))
             ELSE Returns(FallbackDoc)

\* create_test_script(test_data, ...) called from main: the exception it raises, if any
create_test_script_exc(v, td) ==
    LET sel == generate_form_selectors(v, td)
        r1  == generate_test_implementations(v, td, sel)
    IN  IF r1.exc.kind = "KeyError" THEN "KeyError"
        ELSE IF emit_loop(td.test_cases, sel, r1.implementations, <<>>).exc.kind = "KeyError"
             THEN "KeyError" ELSE "none"

\* Schemas as main sees them: whether the html_snippet key is present (the minimal
\* Schema extract_form_data returns on failure has none)
Schemas == [html_snippet : BOOLEAN]

MaxForms == 2

Fences == {<<>>, Fence, FenceJson}

\* response contents: optional surrounding whitespace, an opening fence with or without the
\* json tag, a JSON text or a truncated one, a closing fence
Contents ==
    { pad \o open \o nl \o text \o nl \o close \o pad :
        pad \in {<<>>, <<" ">>}, open \in Fences, nl \in {<<>>, <<"\n">>},
        text \in {d.text : d \in JsonDocs} \cup TruncatedTexts,
        close \in {<<>>, Fence} }

Responses ==
    { [kind |-> "raise", content |-> <<>>], [kind |-> "none", content |-> <<>>] }
    \cup { [kind |-> "content", content |-> c] : c \in Contents }

NoResponse == [kind |-> "unset", content |-> <<>>]

GenIdle ==
    /\ forms = <<>>
    /\ gen_i = 0
    /\ gen_pc = "idle"
    /\ response = NoResponse
    /\ gen_result = NoDoc
    /\ all_test_data = <<>>
    /\ gen_exc = "none"

\* main after the extractor returned a non-empty list of Schemas
GenStart ==
    /\ forms \in SeqsUpTo(Schemas, MaxForms) \ {<<>>}
    /\ gen_i = 0
    /\ gen_pc = "loop"
    /\ response = NoResponse
    /\ gen_result = NoDoc
    /\ all_test_data = <<>>
    /\ gen_exc = "none"

\* One iteration of `for i, form in enumerate(forms)`: generate_test_cases,
\* test_data["form_index"] = i + 1, append, display, save, create_test_script.
\* Any exception leaves main.  A Schema without html_snippet fails while the prompt
\* is built, before the service is called.
ProcessForm ==
    /\ gen_pc = "loop"
    /\ gen_i < Len(forms)
    /\ \E resp \in Responses :
        LET r == generate_test_cases(forms[gen_i + 1], resp) IN
        /\ response' = IF r.exc = "KeyError" THEN NoResponse ELSE resp
        /\ gen_result' = r.value
        /\ IF r.exc # "none"
           THEN /\ gen_exc' = r.exc
                /\ gen_pc' = "raised"
                /\ UNCHANGED <<gen_i, all_test_data>>
           ELSE IF r.value.kind = "list"
           THEN /\ gen_exc' = "TypeError"
                /\ gen_pc' = "raised"
                /\ UNCHANGED <<gen_i, all_test_data>>
           ELSE /\ all_test_data' = Append(all_test_data, r.value)
                /\ IF create_test_script_exc(variant, r.value) # "none"
                   THEN /\ gen_exc' = create_test_script_exc(variant, r.value)
                        /\ gen_pc' = "raised"
                        /\ UNCHANGED gen_i
                   ELSE /\ gen_i' = gen_i + 1
                        /\ UNCHANGED <<gen_pc, gen_exc>>
    /\ UNCHANGED forms

\* the loop is over: README and summary
FinishMain ==
    /\ gen_pc = "loop"
    /\ gen_i = Len(forms)
    /\ gen_pc' = "done"
    /\ UNCHANGED <<forms, gen_i, response, gen_result, all_test_data, gen_exc>>

(***************************************************************************)
(* Schema extraction: extract_form_data and the per-form loop of            *)
(* Crawler_dynamic.extract_forms_from_url                                  *)
(***************************************************************************)
\* Python None among attribute values, which are character sequences: a
\* one-element sequence no string equals
None == <<"NONE">>

\* truthiness of an attribute value: neither None nor the empty string
Truthy(x) == x # None /\ x # <<>>

\* The reads each extractor makes on a button and on an input.  A control whose
\* field `fails` names one of them raises in that read.
DynButtonReads == {"inner_text", "name", "id", "type", "value", "class"}
SpaButtonReads == {"inner_text", "type", "id", "class", "disabled", "data-testid", "data-cy"}
DynInputReads  == {"name", "type", "placeholder", "required", "maxlength", "pattern", "id", "class"}
SpaInputReads  == {"name", "type", "id", "class", "placeholder", "required", "value", "disabled",
                   "readonly", "maxlength", "pattern", "aria-label", "data-testid", "data-cy"}

\* Crawler_dynamic: the label appended to button_info for one button
dyn_button_label(btn) ==
    IF Strip(btn.inner_text) # <<>> THEN Strip(btn.inner_text)
    ELSE IF Truthy(btn.value) THEN btn.value \o <<" ","(","v","a","l","u","e",")">>
    ELSE IF Truthy(btn.name) THEN btn.name \o <<" ","(","n","a","m","e",")">>
    ELSE IF Truthy(btn.id) THEN btn.id \o <<" ","(","i","d",")">>
    ELSE IF Truthy(btn.class) /\ Contains(btn.class, <<"b","t","n">>)
         THEN <<"B","u","t","t","o","n"," ","(">> \o btn.class \o <<")">>
    ELSE <<"B","u","t","t","o","n"," ","(">> \o (IF Truthy(btn.type) THEN btn.type ELSE <<"u","n","k","n","o","w","n">>) \o <<")">>

\* extract_form_data (both SPA modules): the button_info dict of one button
spa_button_info(btn) ==
    [text     |-> IF Strip(btn.inner_text) # <<>> THEN Strip(btn.inner_text) ELSE None,
     type     |-> btn.type,
     id       |-> btn.id,
     class    |-> btn.class,
     disabled |-> btn.disabled # None]

dyn_input_info(inp) ==
    [name |-> inp.name, type |-> inp.type, required |-> inp.required # None]

spa_input_info(inp) ==
    [name |-> inp.name, type |-> inp.type, required |-> inp.required # None, value |-> inp.value]

\* for ctl in controls: try: out.append(info(ctl)) except Exception: continue
RECURSIVE dyn_buttons(_)
dyn_buttons(btns) ==
    IF btns = <<>> THEN <<>>
    ELSE IF Head(btns).fails \in DynButtonReads THEN dyn_buttons(Tail(btns))
    ELSE <<dyn_button_label(Head(btns))>> \o dyn_buttons(Tail(btns))

RECURSIVE spa_buttons(_)
spa_buttons(btns) ==
    IF btns = <<>> THEN <<>>
    ELSE IF Head(btns).fails \in SpaButtonReads THEN spa_buttons(Tail(btns))
    ELSE <<spa_button_info(Head(btns))>> \o spa_buttons(Tail(btns))

RECURSIVE dyn_inputs(_)
dyn_inputs(inps) ==
    IF inps = <<>> THEN <<>>
    ELSE IF Head(inps).fails \in DynInputReads THEN dyn_inputs(Tail(inps))
    ELSE <<dyn_input_info(Head(inps))>> \o dyn_inputs(Tail(inps))

RECURSIVE spa_inputs(_)
spa_inputs(inps) ==
    IF inps = <<>> THEN <<>>
    ELSE IF Head(inps).fails \in SpaInputReads THEN spa_inputs(Tail(inps))
    ELSE <<spa_input_info(Head(inps))>> \o spa_inputs(Tail(inps))

Returned(schema) == [status |-> "returned", schema |-> schema]

\* the except branch of the per-form loop of Crawler_dynamic: the form is left out
Skipped == [status |-> "skipped", schema |-> EmptyDict]

NoResult == [status |-> "none", schema |-> EmptyDict]

\* Where a read on the element itself can raise: el.tagName (evaluate), the
\* element's attributes, the two descendant queries, inner_html
FailPoints == {"none", "tag", "attrs", "inputs_query", "buttons_query", "inner_html"}

\* spa_test_case_generator.extract_form_data(page, element, url, form_id)
spa_tcg_extract_form_data(el, url, form_id) ==
    IF el.fail_at # "none"
    THEN Returned([url |-> url, form_id |-> form_id, error |-> el.fail_at,
                   inputs |-> <<>>, buttons |-> <<>>, input_count |-> 0, button_count |-> 0])
    ELSE Returned([url |-> url, form_id |-> form_id, element_type |-> el.tag,
                   element_id |-> el.id, element_class |-> el.class, element_role |-> el.role,
                   inputs |-> spa_inputs(el.inputs), buttons |-> spa_buttons(el.buttons),
                   input_count |-> Len(spa_inputs(el.inputs)),
                   button_count |-> Len(spa_buttons(el.buttons)),
                   html_snippet |-> el.html])

\* spa_form_extractor.extract_form_data(page, element, form_id): no url parameter
spa_fe_extract_form_data(el, form_id) ==
    IF el.fail_at # "none"
    THEN Returned([form_id |-> form_id, error |-> el.fail_at,
                   inputs |-> <<>>, buttons |-> <<>>, input_count |-> 0, button_count |-> 0])
    ELSE Returned([form_id |-> form_id, element_type |-> el.tag,
                   element_id |-> el.id, element_class |-> el.class, element_role |-> el.role,
                   inputs |-> spa_inputs(el.inputs), buttons |-> spa_buttons(el.buttons),
                   input_count |-> Len(spa_inputs(el.inputs)),
                   button_count |-> Len(spa_buttons(el.buttons)),
                   html_snippet |-> el.html])

\* Crawler_dynamic: the body of `for i, form in enumerate(unique_forms)`; tagName is
\* not read here, every other failing read skips the form
dyn_analyze_form(el, url, form_index) ==
    IF el.fail_at \in {"attrs", "inputs_query", "buttons_query", "inner_html"} THEN Skipped
    ELSE Returned([url |-> url, form_index |-> form_index,
                   inputs |-> dyn_inputs(el.inputs), buttons |-> dyn_buttons(el.buttons),
                   html_snippet |-> el.html, form_action |-> None, form_method |-> None,
                   form_id |-> el.id, form_class |-> el.class])

ExtVariants == {"dyn", "spa_tcg", "spa_fe"}

TheUrl == "https://shop.example/"

TheFormId == "traditional_form_1"

extract(v, el) ==
    CASE v = "dyn"     -> dyn_analyze_form(el, TheUrl, 1)
      [] v = "spa_tcg" -> spa_tcg_extract_form_data(el, TheUrl, TheFormId)
      [] v = "spa_fe"  -> spa_fe_extract_form_data(el, TheFormId)

\* buttons as the DOM can hold them
AllButtons ==
    [inner_text : {<<>>, <<" ">>, <<" ","G","o"," ">>},
     value      : {None, <<>>, <<"S","e","n","d">>},
     name       : {None, <<"g","o">>},
     id         : {None, <<"b","1">>},
     class      : {None, <<"b","t","n"," ","b","i","g">>, <<"l","i","n","k">>},
     type       : {None, <<"s","u","b","m","i","t">>},
     disabled   : {None},
     fails      : {"none", "inner_text", "value"}]

\* the buttons of the elements of SpecExtract
FewButtons ==
    {b \in AllButtons : /\ b.name = None /\ b.id = None /\ b.type = None
                        /\ b.class = None /\ b.value # <<>> /\ b.inner_text # <<" ">>}

Inputs ==
    [name : {None, <<"q">>}, type : {None}, required : {None, <<>>}, value : {None},
     fails : {"none", "name", "value"}]

MaxInputs == 1

MaxButtons == 1

\* a candidate element; html stands for inner_html()[:500] of markup shorter than
\* the cut
Element(fail_at, inps, btns) ==
    [tag |-> "form", id |-> None, class |-> None, role |-> None, html |-> "<inner html>",
     fail_at |-> fail_at, inputs |-> inps, buttons |-> btns]

ExtIdle ==
    /\ ext_variant = "dyn"
    /\ element = Element("none", <<>>, <<>>)
    /\ ext_pc = "idle"
    /\ ext_result = NoResult

\* one candidate element before extraction
ExtStart(elements) ==
    /\ ext_variant \in ExtVariants
    /\ element \in elements
    /\ ext_pc = "start"
    /\ ext_result = NoResult

\* the extractor runs on the element
ExtractFormData ==
    /\ ext_pc = "start"
    /\ ext_result' = extract(ext_variant, element)
    /\ ext_pc' = "done"
    /\ UNCHANGED <<ext_variant, element>>

(***************************************************************************)
(* Candidate discovery: extract_forms_from_url of Crawler_dynamic.py and   *)
(* Crawler_js_enhanced.py                                                  *)
(***************************************************************************)
DiscVariants == {"dyn", "js"}

\* The nodes the structural queries tell apart:
\*   form        <form>
\*   search_form <form class="search...">
\*   form_div    <div class="...form..."> holding an input
\*   input_div   <div> holding an input
\* (a <div class="search..."> holding an input, which strategies 3 and 4 both match
\* the way 1 and 4 both match search_form, is left out of the palette)
Kinds == {"form", "search_form", "form_div", "input_div"}

\* the markup inside a node
Markups == {"m1", "m2"}

Nodes == [kind : Kinds, markup : Markups]

\* Crawler_dynamic runs four queries, Crawler_js_enhanced the first three
NStrategies(v) == IF v = "dyn" THEN 4 ELSE 3

\* whether the selector of strategy k matches a node
Matches(k, node) ==
    CASE k = 1 -> node.kind \in {"form", "search_form"}
      [] k = 2 -> node.kind = "form_div"
      [] k = 3 -> node.kind \in {"form_div", "input_div"}
      [] k = 4 -> node.kind = "search_form"

\* page.query_selector_all(selector of strategy k): one fresh handle per matching
\* node, in document order
RECURSIVE query_from(_, _, _)
query_from(k, page, i) ==
    IF i > Len(page) THEN <<>>
    ELSE (IF Matches(k, page[i]) THEN <<[strategy |-> k, node |-> i]>> ELSE <<>>)
         \o query_from(k, page, i + 1)

query_selector_all(k, page) == query_from(k, page, 1)

\* forms = []; forms.extend(<strategy k>) for k = 1 .. last
RECURSIVE run_strategies(_, _)
run_strategies(page, last) ==
    IF last = 0 THEN <<>>
    ELSE run_strategies(page, last - 1) \o query_selector_all(last, page)

\* el.outerHTML: the tag with its attributes and what it holds
outerHTML(node) == <<node.kind, node.markup>>

\* form.inner_html(): what the node holds
inner_html(node) == <<node.markup>>

\* the signature the dedup loop of each crawler reads
Signature(v, node) == IF v = "dyn" THEN outerHTML(node) ELSE inner_html(node)

\* a signature read that raised
ReadFailed == <<>>

\* the seen set and the unique list after the candidates from position i on:
\*   try: sig = read(form)
\*        if sig not in seen: seen.add(sig); unique_forms.append(form)
\*   except: continue
RECURSIVE dedup_loop(_, _, _, _, _)
dedup_loop(candidates, reads, i, seen, unique) ==
    IF i > Len(candidates) THEN unique
    ELSE IF reads[i] = ReadFailed THEN dedup_loop(candidates, reads, i + 1, seen, unique)
    ELSE IF reads[i] \in seen THEN dedup_loop(candidates, reads, i + 1, seen, unique)
    ELSE dedup_loop(candidates, reads, i + 1, seen \cup {reads[i]}, Append(unique, candidates[i]))

\* a dedup that lets the last candidate of each signature survive
KeepLast_remove_duplicates(candidates, reads) ==
    LET keep(i) == /\ reads[i] # ReadFailed
                   /\ \A j \in (i + 1)..Len(candidates) : reads[j] # reads[i]
        RECURSIVE walk(_)
        walk(i) == IF i > Len(candidates) THEN <<>>
                   ELSE (IF keep(i) THEN <<candidates[i]>> ELSE <<>>) \o walk(i + 1)
    IN walk(1)

remove_duplicates(candidates, reads) == dedup_loop(candidates, reads, 1, {}, <<>>)

\* for i, form in enumerate(unique_forms): try: ... data.append({..., "form_index": i + 1, ...})
\*                                         except Exception: continue
\* The control lists of an entry are modelled in the Schema extraction section.
RECURSIVE analyze_from(_, _, _, _)
analyze_from(page, handles, failing, i) ==
    IF i > Len(handles) THEN <<>>
    ELSE (IF i \in failing THEN <<>>
          ELSE <<[url |-> TheUrl, form_index |-> i,
                  html_snippet |-> inner_html(page[handles[i].node])]>>)
         \o analyze_from(page, handles, failing, i + 1)

MaxNodes == 3

\* how many reads of one loop may raise in one run
MaxReadFailures == 1

SubsetsUpTo(S, n) == {F \in SUBSET S : Cardinality(F) <= n}

DiscIdle ==
    /\ disc_variant = "dyn"
    /\ dom = <<>>
    /\ disc_pc = "idle"
    /\ failed_strategy = 0
    /\ disc_forms = <<>>
    /\ sig_reads = <<>>
    /\ unique_forms = <<>>
    /\ data = <<>>

\* extract_forms_from_url is called on a url whose page holds the nodes of dom
DiscStart ==
    /\ disc_variant \in DiscVariants
    /\ dom \in SeqsUpTo(Nodes, MaxNodes)
    /\ disc_pc = "start"
    /\ failed_strategy = 0
    /\ disc_forms = <<>>
    /\ sig_reads = <<>>
    /\ unique_forms = <<>>
    /\ data = <<>>

\* page.goto(url, ...) and the waits: outside any try, so a navigation error leaves
\* extract_forms_from_url
Navigate ==
    /\ disc_pc = "start"
    /\ \E loaded \in BOOLEAN : disc_pc' = IF loaded THEN "loaded" ELSE "raised"
    /\ UNCHANGED <<disc_variant, dom, failed_strategy, disc_forms, sig_reads, unique_forms, data>>

\* the battery of queries: no query is inside a try, so the first one that raises
\* leaves extract_forms_from_url with the matches gathered so far lost
RunStrategies ==
    /\ disc_pc = "loaded"
    /\ \E f \in 0..NStrategies(disc_variant) :
          /\ failed_strategy' = f
          /\ IF f = 0
             THEN /\ disc_forms' = run_strategies(dom, NStrategies(disc_variant))
                  /\ disc_pc' = "found"
             ELSE /\ disc_forms' = run_strategies(dom, f - 1)
                  /\ disc_pc' = "raised"
    /\ UNCHANGED <<disc_variant, dom, sig_reads, unique_forms, data>>

\* the dedup loop; any of its signature reads may raise
RemoveDuplicates ==
    /\ disc_pc = "found"
    /\ \E failing \in SubsetsUpTo(1..Len(disc_forms), MaxReadFailures) :
          LET reads == [i \in 1..Len(disc_forms) |->
                          IF i \in failing THEN ReadFailed
                          ELSE Signature(disc_variant, dom[disc_forms[i].node])]
          IN /\ sig_reads' = reads
             /\ unique_forms' = remove_duplicates(disc_forms, reads)
    /\ disc_pc' = "unique"
    /\ UNCHANGED <<disc_variant, dom, failed_strategy, disc_forms, data>>

\* the per-form loop, browser.close() and return data
AnalyzeForms ==
    /\ disc_pc = "unique"
    /\ \E failing \in SubsetsUpTo(1..Len(unique_forms), MaxReadFailures) :
          data' = analyze_from(dom, unique_forms, failing, 1)
    /\ disc_pc' = "returned"
    /\ UNCHANGED <<disc_variant, dom, failed_strategy, disc_forms, sig_reads, unique_forms>>

(***************************************************************************)
(* SPA discovery and trigger exploration: extract_spa_forms of              *)
(* spa_form_extractor.py and spa_test_case_generator.py                    *)
(***************************************************************************)
SpaVariants == {"spa_fe", "spa_tcg"}

\* The nodes the queries of extract_spa_forms tell apart:
\*   form       <form>
\*   form_div   <div class="...form..."> holding an input
\*   input_div  <div> holding an input
\*   button_div <div> holding a button and no input
\*   modal      <div class="modal"> holding an input
SpaKinds == {"form", "form_div", "input_div", "button_div", "modal"}

\* broken: a read on the element raises inside extract_form_data
SpaNodes == [kind : SpaKinds, markup : Markups, broken : BOOLEAN]

\* the five structural queries, in the order the code runs them (spa_test_case_generator
\* leaves out the fourth)
SpaMatches(k, node) ==
    CASE k = 1 -> node.kind = "form"
      [] k = 2 -> node.kind = "form_div"
      [] k = 3 -> node.kind \in {"form_div", "input_div", "modal"}
      [] k = 4 -> node.kind = "button_div"
      [] k = 5 -> node.kind = "modal"

\* a query for new forms that button groups match as well
ButtonGroups_NewFormMatches(node) == node.kind \in {"form", "modal", "button_div"}

\* whether the selector of the query for new forms after a click matches a node
NewFormMatches(node) == node.kind \in {"form", "modal"}

Min(a, b) == IF a < b THEN a ELSE b

\* seq[:n]
Take(seq, n) == SubSeq(seq, 1, Min(n, Len(seq)))

\* input_containers[:5]
InputContainerCap == 5

\* triggers[:10]
TriggersChecked == 10

\* form_triggers[:3]
TriggersClicked == 3

\* the nodes of a page a selector matches (matched[i] tells whether it matches the
\* i-th), in document order
RECURSIVE spa_query_from(_, _, _)
spa_query_from(page, matched, i) ==
    IF i > Len(page) THEN <<>>
    ELSE (IF matched[i] THEN <<page[i]>> ELSE <<>>) \o spa_query_from(page, matched, i + 1)

\* page.query_selector_all(selector of strategy k)
spa_query(k, page) ==
    spa_query_from(page, [i \in 1..Len(page) |-> SpaMatches(k, page[i])], 1)

\* page.query_selector_all("form, div[role='form'], .modal:has(input)")
new_forms_query(page) ==
    spa_query_from(page, [i \in 1..Len(page) |-> NewFormMatches(page[i])], 1)

Digit(n) == CASE n = 1 -> "1" [] n = 2 -> "2" [] n = 3 -> "3" [] n = 4 -> "4" [] n = 5 -> "5"
              [] n = 6 -> "6" [] n = 7 -> "7" [] n = 8 -> "8" [] n = 9 -> "9" [] OTHER -> "0"

\* str(n) for the numbers the model numbers forms with
Str(n) == IF n < 10 THEN <<Digit(n)>> ELSE <<Digit(n \div 10), Digit(n % 10)>>

\* f"{prefix}_{n}"
FormId(prefix, n) == <<prefix, "_">> \o Str(n)

\* f"dynamic_form_{i+1}_{j+1}"
\* an id for the forms found after a click that leaves out their position j
TriggerOnly_DynamicFormId(i, j) == <<"dynamic_form", "_">> \o Str(i)

DynamicFormId(i, j) == <<"dynamic_form", "_">> \o Str(i) \o <<"_">> \o Str(j)

\* the element handle of a node as extract_form_data sees it
SpaElement(node) ==
    [Element(IF node.broken THEN "tag" ELSE "none", <<>>, <<>>) EXCEPT
        !.tag = IF node.kind = "form" THEN "form" ELSE "div",
        !.html = node.markup]

\* extract_form_data of the running module on one node
spa_extract(v, node, form_id) ==
    IF v = "spa_fe" THEN spa_fe_extract_form_data(SpaElement(node), form_id).schema
    ELSE spa_tcg_extract_form_data(SpaElement(node), TheUrl, form_id).schema

\* for i, el in enumerate(matches): forms_data.append(extract_form_data(..., f"{prefix}_{i+1}"))
process(v, matches, prefix) ==
    [i \in 1..Len(matches) |-> spa_extract(v, matches[i], FormId(prefix, i))]

\* processing loops that take every input container
Uncapped_process_all(v, page) ==
    process(v, spa_query(1, page), "traditional_form")
    \o process(v, spa_query(2, page), "form_like")
    \o process(v, spa_query(3, page), "input_container")
    \o process(v, spa_query(5, page), "modal_form")

\* the four processing loops over the matches of strategies 1, 2, 3 and 5
process_all(v, page) ==
    process(v, spa_query(1, page), "traditional_form")
    \o process(v, spa_query(2, page), "form_like")
    \o process(v, Take(spa_query(3, page), InputContainerCap), "input_container")
    \o process(v, spa_query(5, page), "modal_form")

\* the action keywords of the trigger filter
Keywords ==
    { <<"a","d","d">>, <<"c","r","e","a","t","e">>, <<"n","e","w">>, <<"s","u","b","m","i","t">>,
      <<"c","o","n","t","a","c","t">>, <<"s","i","g","n">>, <<"r","e","g","i","s","t","e","r">>,
      <<"l","o","g","i","n">>, <<"e","m","a","i","l">>, <<"m","e","s","s","a","g","e">> }

\* text and any(keyword in text.lower() for keyword in [...])
HasKeyword(text) == text # <<>> /\ \E kw \in Keywords : Contains(Lower(text), kw)

\* a filter that keeps each of the first ten triggers whatever its text
Unfiltered_filter_triggers(triggers, i) ==
    [k \in 1..(Min(TriggersChecked, Len(triggers)) - i + 1) |-> k + i - 1]

\* form_triggers: of the first ten triggers, those whose inner text could be read and
\* holds a keyword (as positions in the trigger list)
RECURSIVE filter_triggers(_, _)
filter_triggers(triggers, i) ==
    IF i > Min(TriggersChecked, Len(triggers)) THEN <<>>
    ELSE (IF triggers[i].readable /\ HasKeyword(triggers[i].text) THEN <<i>> ELSE <<>>)
         \o filter_triggers(triggers, i + 1)

\* what a click on a trigger does to the page when it lands
Effects == {"none", "reveal", "navigate"}

TriggerTexts == { <<"S","I","G","N"," ","u","p">>, <<"H","e","l","p">>, <<>> }

\* readable: whether trigger.inner_text() returns
Triggers == [text : TriggerTexts, readable : BOOLEAN, effect : Effects]

\* the node a revealing click adds to the page
RevealedNode == [kind |-> "modal", markup |-> "m2", broken |-> FALSE]

\* the page a navigating click leads to
OtherDom == <<[kind |-> "form", markup |-> "m2", broken |-> FALSE]>>

\* the nodes page.query_selector_all sees now
CurrentDom ==
    CASE page_url = "origin" -> site.dom \o revealed
      [] page_url = "other"  -> OtherDom
      [] OTHER               -> <<>>

\* the new forms of iteration i of the click loop, on the page as it stands after the click
new_forms_data(i, page) ==
    LET found == new_forms_query(page)
    IN [j \in 1..Len(found) |-> spa_extract("spa_fe", found[j], DynamicFormId(i, j))]

\* where an iteration of the click loop can raise: the click before it has any
\* effect, the click after its effect, the query for new forms, the navigation back
ClickFailures == {"none", "click", "click_late", "query", "goto"}

\* n copies of x
Pad(n, x) == [i \in 1..n |-> x]

Site(nodes, triggers) == [dom |-> nodes, triggers |-> triggers]

PlainInputDiv == [kind |-> "input_div", markup |-> "m1", broken |-> FALSE]

HelpLink == [text |-> <<"H","e","l","p">>, readable |-> TRUE, effect |-> "none"]

SignUp(effect) == [text |-> <<"S","I","G","N"," ","u","p">>, readable |-> TRUE, effect |-> effect]

MaxSpaNodes == 1

MaxSpaTriggers == 3

\* sites for trigger exploration: a short page and a few triggers of every effect
ExploreSites ==
    {Site(d, t) : d \in SeqsUpTo({n \in SpaNodes : n.markup = "m1" /\ ~n.broken
                                                   /\ n.kind \in {"form", "input_div"}}, MaxSpaNodes),
                  t \in SeqsUpTo({HelpLink} \cup {SignUp(e) : e \in Effects}, MaxSpaTriggers)}

MaxTriggerList == 4

\* sites for the trigger filter: none, or nine, leading links without a keyword, then
\* triggers of any text, readable or not
FilterSites ==
    {Site(<<>>, Pad(k, HelpLink) \o t) :
        k \in {0, 9},
        t \in SeqsUpTo({tr \in Triggers : tr.effect = "none" /\ (tr.readable \/ tr.text # <<>>)},
                       MaxTriggerList)}

MaxCapNodes == 2

\* sites for the input-container cap: a short page of any nodes, alone or with five
\* input containers before or after it; one trigger
CapSites ==
    {Site(d, <<SignUp("none")>>) :
        d \in UNION {{short, Pad(InputContainerCap, PlainInputDiv) \o short,
                      short \o Pad(InputContainerCap, PlainInputDiv)} :
                     short \in SeqsUpTo(SpaNodes, MaxCapNodes)}}

MaxIdNodes == 2

MaxIdTriggers == 2

\* sites for the numbering of the Schemas: a short page of forms, form-like
\* containers and modals, and triggers that reveal a modal or leave the page as it is
IdSites ==
    {Site(d, t) : d \in SeqsUpTo({n \in SpaNodes : n.markup = "m1" /\ ~n.broken
                                                   /\ n.kind \in {"form", "form_div", "modal"}},
                                 MaxIdNodes),
                  t \in SeqsUpTo({SignUp("none"), SignUp("reveal")}, MaxIdTriggers)}

\* an iteration that raises leaves forms_data empty
Dropping_forms_after_click(collected, fail, i, page) ==
    IF fail = "none" THEN collected \o new_forms_data(i, page) ELSE <<>>

\* forms_data at the end of iteration i of the click loop: the new forms are appended
\* when the query for them was reached and returned
forms_after_click(collected, fail, i, page) ==
    IF fail \in {"none", "goto"} THEN collected \o new_forms_data(i, page) ELSE collected

SpaIdle ==
    /\ spa_variant = "spa_fe"
    /\ site = [dom |-> <<>>, triggers |-> <<>>]
    /\ page_url = "blank"
    /\ revealed = <<>>
    /\ spa_pc = "idle"
    /\ spa_failed = 0
    /\ forms_data = <<>>
    /\ initial_data = <<>>
    /\ form_triggers = <<>>
    /\ trig_i = 0
    /\ clicks = <<>>

\* extract_spa_forms is called on the url of one of the sites
SpaStart(variants, sites) ==
    /\ spa_variant \in variants
    /\ site \in sites
    /\ page_url = "blank"
    /\ revealed = <<>>
    /\ spa_pc = "start"
    /\ spa_failed = 0
    /\ forms_data = <<>>
    /\ initial_data = <<>>
    /\ form_triggers = <<>>
    /\ trig_i = 0
    /\ clicks = <<>>

\* page.goto(url) and the waits, inside the outer try: a navigation error ends
\* extract_spa_forms with []
SpaNavigate ==
    /\ spa_pc = "start"
    /\ \E loaded \in BOOLEAN :
          IF loaded THEN spa_pc' = "loaded" /\ page_url' = "origin"
          ELSE spa_pc' = "returned" /\ page_url' = "blank"
    /\ UNCHANGED <<spa_variant, site, revealed, spa_failed, forms_data, initial_data,
                   form_triggers, trig_i, clicks>>

\* the structural queries and the processing loops; a query that raises is caught
\* by the outer handler, which returns [].  spa_test_case_generator returns here.
SpaDiscover ==
    /\ spa_pc = "loaded"
    /\ \E f \in {0, 1, 2, 3, 4, 5} :
          /\ spa_variant = "spa_tcg" => f # 4
          /\ spa_failed' = f
          /\ IF f # 0
             THEN /\ forms_data' = <<>>
                  /\ spa_pc' = "returned"
             ELSE /\ forms_data' = process_all(spa_variant, CurrentDom)
                  /\ spa_pc' = IF spa_variant = "spa_tcg" THEN "returned" ELSE "processed"
          /\ initial_data' = IF f = 0 THEN process_all(spa_variant, CurrentDom) ELSE <<>>
    /\ UNCHANGED <<spa_variant, site, page_url, revealed, form_triggers, trig_i, clicks>>

\* the trigger query and the keyword filter; the query is inside the outer try only
CollectTriggers ==
    /\ spa_pc = "processed"
    /\ \E raises \in BOOLEAN :
          IF raises
          THEN /\ spa_failed' = 6
               /\ forms_data' = <<>>
               /\ form_triggers' = <<>>
               /\ spa_pc' = "returned"
          ELSE /\ spa_failed' = 0
               /\ forms_data' = forms_data
               /\ form_triggers' = filter_triggers(site.triggers, 1)
               /\ spa_pc' = "clicking"
    /\ UNCHANGED <<spa_variant, site, page_url, revealed, initial_data, trig_i, clicks>>

\* one iteration of `for i, trigger in enumerate(form_triggers[:3])`
ClickTrigger ==
    /\ spa_pc = "clicking"
    /\ trig_i < Min(TriggersClicked, Len(form_triggers))
    /\ \E fail \in ClickFailures :
          LET t       == form_triggers[trig_i + 1]
              lands   == fail # "click"
              effect  == IF lands /\ page_url = "origin" THEN site.triggers[t].effect ELSE "none"
              url1    == IF effect = "navigate" THEN "other" ELSE page_url
              shown1  == IF effect = "reveal" THEN Append(revealed, RevealedNode)
                         ELSE IF effect = "navigate" THEN <<>> ELSE revealed
              page1   == IF url1 = "origin" THEN site.dom \o shown1 ELSE OtherDom
              back    == fail = "none" /\ url1 # "origin"
          IN /\ fail = "goto" => url1 # "origin"
             /\ clicks' = Append(clicks, [trigger |-> t, url |-> page_url, fail |-> fail,
                                          had |-> forms_data])
             /\ forms_data' = forms_after_click(forms_data, fail, trig_i + 1, page1)
             /\ page_url' = IF back THEN "origin" ELSE url1
             /\ revealed' = IF back THEN <<>> ELSE shown1
    /\ trig_i' = trig_i + 1
    /\ UNCHANGED <<spa_variant, site, spa_pc, spa_failed, initial_data, form_triggers>>

\* the loop is over: browser.close() and return forms_data
SpaReturn ==
    /\ spa_pc = "clicking"
    /\ trig_i = Min(TriggersClicked, Len(form_triggers))
    /\ spa_pc' = "returned"
    /\ UNCHANGED <<spa_variant, site, page_url, revealed, spa_failed, forms_data, initial_data,
                   form_triggers, trig_i, clicks>>

MaxPipeNodes == 1

\* sites for the whole pipeline: a short page of forms, sound or broken, and button
\* groups; at most one trigger
PipeSites ==
    {Site(d, t) : d \in SeqsUpTo({n \in SpaNodes : /\ n.markup = "m1"
                                                   /\ n.kind \in {"form", "button_div"}
                                                   /\ (n.broken => n.kind = "form")}, MaxPipeNodes),
                  t \in {<<>>, <<SignUp("none")>>}}

\* main once extract_spa_forms has returned.  spa_test_case_generator.main returns at
\* once on an empty list and otherwise enters the generation loop;
\* spa_form_extractor.main prints or saves what it got and generates nothing.
SpaMain ==
    /\ spa_pc = "returned"
    /\ gen_pc = "idle"
    /\ IF forms_data = <<>>
       THEN gen_pc' = "no_forms" /\ forms' = <<>>
       ELSE IF spa_variant = "spa_fe"
       THEN gen_pc' = "saved" /\ forms' = <<>>
       ELSE /\ gen_pc' = "loop"
            /\ forms' = [i \in 1..Len(forms_data) |->
                           [html_snippet |-> "html_snippet" \in DOMAIN forms_data[i]]]
    /\ UNCHANGED <<gen_i, response, gen_result, all_test_data, gen_exc>>

(***************************************************************************)
(* Custom widgets: the widget loop of                                      *)
(* test_case_generator.extract_forms_from_url                              *)
(***************************************************************************)
tFile  == <<"f","i","l","e">>
tRange == <<"r","a","n","g","e">>
tDate  == <<"d","a","t","e">>
tColor == <<"c","o","l","o","r">>

\* a widget-specific mapping in which date widgets get step as well
DateStep_widget_attrs(w) ==
    IF w.type = tFile THEN [k \in {"accept", "multiple"} |-> w[k]]
    ELSE IF w.type \in {tRange, tDate} THEN [k \in {"min", "max", "step"} |-> w[k]]
    ELSE EmptyDict

\* widget_attrs: if file / elif range / elif date, otherwise left empty
widget_attrs(w) ==
    IF w.type = tFile THEN [k \in {"accept", "multiple"} |-> w[k]]
    ELSE IF w.type = tRange THEN [k \in {"min", "max", "step"} |-> w[k]]
    ELSE IF w.type = tDate THEN [k \in {"min", "max"} |-> w[k]]
    ELSE EmptyDict

\* the attribute reads the loop body makes on a widget
WidgetReads(w) == {"type", "id", "class", "name", "value"} \cup DOMAIN widget_attrs(w)

\* the dict appended for one widget
tcg_widget_info(w) ==
    [type |-> w.type, id |-> w.id, class |-> w.class, name |-> w.name, value |-> w.value,
     attributes |-> widget_attrs(w)]

\* for widget in custom_widgets: try: widget_info.append({...}) except Exception: continue
RECURSIVE tcg_widgets(_)
tcg_widgets(ws) ==
    IF ws = <<>> THEN <<>>
    ELSE IF Head(ws).fails \in WidgetReads(Head(ws)) THEN tcg_widgets(Tail(ws))
    ELSE <<tcg_widget_info(Head(ws))>> \o tcg_widgets(Tail(ws))

\* widgets as a form can hold them; fails names the read that raises, if any
Widgets ==
    [type : {None, tFile, tRange, tDate, tColor},
     id : {None}, class : {None}, name : {None}, value : {None},
     accept : {None, <<"x">>}, multiple : {<<>>},
     min : {None, <<"1">>}, max : {None, <<"9">>}, step : {None, <<"2">>},
     fails : {"none", "type", "min"}]

MaxWidgets == 1

WidIdle ==
    /\ custom_widgets = <<>>
    /\ wid_pc = "idle"
    /\ widget_info = <<>>

WidStart ==
    /\ custom_widgets \in SeqsUpTo(Widgets, MaxWidgets)
    /\ wid_pc = "start"
    /\ widget_info = <<>>

\* the widget loop runs over the widgets of the form
ProcessWidgets ==
    /\ wid_pc = "start"
    /\ widget_info' = tcg_widgets(custom_widgets)
    /\ wid_pc' = "done"
    /\ UNCHANGED custom_widgets

(***************************************************************************)
(* Test runners: TestRunner (run_all_tests.py) and FixedTestRunner         *)
(* (run_all_fixed_tests.py)                                                *)
(***************************************************************************)
RunVariants == {"all", "fixed"}

kwWorking == <<"w","o","r","k","i","n","g">>

\* the directory the runner is started in; test_cases_dir = Path("test_cases") is
\* relative to it, and so is every path discover_test_files returns
StartDir == "."

\* how subprocess.run ends: the exit code of the child, TimeoutExpired, or another
\* exception (the interpreter cannot be started)
Outcomes == {"exit0", "exit1", "TimeoutExpired", "OSError"}

\* os.chdir(test_dir) with the relative test_dir of a discovered file: the path
\* resolves against the current directory, and the directories of the test files
\* exist under the start directory only
chdir(dir, test_dir) ==
    IF dir = StartDir THEN [exc |-> "none", cwd |-> test_dir]
    ELSE [exc |-> "FileNotFoundError", cwd |-> dir]

\* the dict the except clauses return
ErrorResult(test_file, error) ==
    [file |-> test_file, name |-> test_file.name, return_code |-> -1, success |-> FALSE,
     error |-> error]

\* the dict built after subprocess.run returned (stdout, stderr and the counts
\* parsed from stdout are left out)
CompletedResult(test_file, return_code) ==
    [file |-> test_file, name |-> test_file.name, return_code |-> return_code,
     success |-> (return_code = 0)]

\* run_single_test_file and run_single_fixed_test, called in directory `dir`:
\* the result returned and the working directory left behind.  getcwd, chdir and
\* subprocess.run are inside the try; os.chdir(original_dir) is its last
\* statement before the return and no except clause repeats it.
run_single_test_file(test_file, dir, outcome) ==
    LET cd == chdir(dir, test_file.parent) IN
    IF cd.exc # "none" THEN [result |-> ErrorResult(test_file, cd.exc), cwd |-> cd.cwd]
    ELSE IF outcome = "TimeoutExpired" THEN [result |-> ErrorResult(test_file, "Timeout"), cwd |-> cd.cwd]
    ELSE IF outcome = "OSError" THEN [result |-> ErrorResult(test_file, outcome), cwd |-> cd.cwd]
    ELSE [result |-> CompletedResult(test_file, IF outcome = "exit0" THEN 0 ELSE 1), cwd |-> dir]

\* TestRunner.run_working_test: the same shape with a single `except Exception`
run_working_test(test_file, dir, outcome) ==
    LET cd == chdir(dir, test_file.parent) IN
    IF cd.exc # "none" THEN [result |-> ErrorResult(test_file, cd.exc), cwd |-> cd.cwd]
    ELSE IF outcome \in {"TimeoutExpired", "OSError"}
    THEN [result |-> ErrorResult(test_file, outcome), cwd |-> cd.cwd]
    ELSE [result |-> CompletedResult(test_file, IF outcome = "exit0" THEN 0 ELSE 1), cwd |-> dir]

\* `"working" in test_file.name.lower()`, tested by run_all_tests only
IsWorkingTest(v, test_file) == v = "all" /\ Contains(Lower(test_file.name), kwWorking)

\* self.results as __init__ leaves it (start_time and end_time are left out);
\* FixedTestRunner has no errors counter
InitialResults(v) ==
    IF v = "all"
    THEN [total_tests |-> 0, passed |-> 0, failed |-> 0, errors |-> 0, test_files |-> <<>>]
    ELSE [total_tests |-> 0, passed |-> 0, failed |-> 0, test_files |-> <<>>]

\* a tally that books the results of the except clauses under errors
ErrorsCounted_tally(res, result) ==
    IF result.success THEN [res EXCEPT !.passed = @ + 1]
    ELSE IF "error" \in DOMAIN result /\ "errors" \in DOMAIN res THEN [res EXCEPT !.errors = @ + 1]
    ELSE [res EXCEPT !.failed = @ + 1]

\* if result["success"]: passed += 1, else: failed += 1
tally(res, result) ==
    IF result.success THEN [res EXCEPT !.passed = @ + 1] ELSE [res EXCEPT !.failed = @ + 1]

\* the files discover_test_files / discover_fixed_tests can return
TestDirs == {"test_cases/site_a/test_scripts", "test_cases/site_b/test_scripts"}

TestFileNames(v) ==
    IF v = "all"
    THEN { <<"t","e","s","t","_","f","o","r","m">>,
           <<"t","e","s","t","_","W","o","r","k","i","n","g">> }
    ELSE { <<"f","i","x","e","d","_","t","e","s","t">> }

TestFiles(v) == [parent : TestDirs, name : TestFileNames(v)]

MaxFiles == 2

RunIdle ==
    /\ run_variant = "all"
    /\ test_files = <<>>
    /\ run_i = 0
    /\ run_pc = "idle"
    /\ cwd = StartDir
    /\ original_dir = StartDir
    /\ results = InitialResults("all")
    /\ run_result = EmptyDict

\* run_all_tests once discovery has returned a non-empty list
RunStart ==
    /\ run_variant \in RunVariants
    /\ test_files \in SeqsUpTo(TestFiles(run_variant), MaxFiles) \ {<<>>}
    /\ run_i = 0
    /\ run_pc = "loop"
    /\ cwd = StartDir
    /\ original_dir = StartDir
    /\ results = InitialResults(run_variant)
    /\ run_result = EmptyDict

\* for test_file in test_files: self.results["total_tests"] += 1
CountFile ==
    /\ run_pc = "loop"
    /\ run_i < Len(test_files)
    /\ results' = [results EXCEPT !.total_tests = @ + 1]
    /\ run_pc' = "counted"
    /\ UNCHANGED <<run_variant, test_files, run_i, cwd, original_dir, run_result>>

\* result = self.run_working_test(test_file) or self.run_single_test_file(test_file)
RunFile ==
    /\ run_pc = "counted"
    /\ \E outcome \in Outcomes :
        LET test_file == test_files[run_i + 1]
            r == IF IsWorkingTest(run_variant, test_file)
                 THEN run_working_test(test_file, cwd, outcome)
                 ELSE run_single_test_file(test_file, cwd, outcome)
        IN  /\ run_result' = r.result
            /\ cwd' = r.cwd
            /\ original_dir' = cwd
    /\ run_pc' = "ran"
    /\ UNCHANGED <<run_variant, test_files, run_i, results>>

\* self.results["test_files"].append(result), then the passed / failed count
RecordResult ==
    /\ run_pc = "ran"
    /\ results' = tally([results EXCEPT !.test_files = Append(@, run_result)], run_result)
    /\ run_i' = run_i + 1
    /\ run_pc' = "loop"
    /\ UNCHANGED <<run_variant, test_files, cwd, original_dir, run_result>>

\* the loop is over: print_summary and save_results
FinishRun ==
    /\ run_pc = "loop"
    /\ run_i = Len(test_files)
    /\ run_pc' = "done"
    /\ UNCHANGED <<run_variant, test_files, run_i, cwd, original_dir, results, run_result>>

(***************************************************************************)
(* Specifications                                                          *)
(***************************************************************************)
NextSynth ==
    /\ GenerateFormSelectors \/ GenerateTestImplementations \/ EmitScript
    /\ UNCHANGED <<variant, genVars, extVars, discVars, spaVars, widVars, runVars>>

NextGen ==
    /\ ProcessForm \/ FinishMain
    /\ UNCHANGED <<variant, synthVars, extVars, discVars, spaVars, widVars, runVars>>

NextExt ==
    /\ ExtractFormData
    /\ UNCHANGED <<variant, synthVars, genVars, discVars, spaVars, widVars, runVars>>

NextDisc ==
    /\ Navigate \/ RunStrategies \/ RemoveDuplicates \/ AnalyzeForms
    /\ UNCHANGED <<variant, synthVars, genVars, extVars, spaVars, widVars, runVars>>

NextWid ==
    /\ ProcessWidgets
    /\ UNCHANGED <<variant, synthVars, genVars, extVars, discVars, spaVars, runVars>>

NextSpa ==
    /\ SpaNavigate \/ SpaDiscover \/ CollectTriggers \/ ClickTrigger \/ SpaReturn
    /\ UNCHANGED <<variant, synthVars, genVars, extVars, discVars, widVars, runVars>>

InitCls ==
    /\ variant \in Variants
    /\ SynthStart(Labels, {[form_type |-> <<>>, test_data |-> EmptyDict]}, 0)
    /\ GenIdle
    /\ ExtIdle
    /\ DiscIdle
    /\ SpaIdle
    /\ WidIdle
    /\ RunIdle

InitSynth ==
    /\ variant \in Variants
    /\ SynthStart(TypeLabels, CaseShapes, MaxCases)
    /\ GenIdle
    /\ ExtIdle
    /\ DiscIdle
    /\ SpaIdle
    /\ WidIdle
    /\ RunIdle

InitGen ==
    /\ variant \in Variants
    /\ SynthIdle
    /\ GenStart
    /\ ExtIdle
    /\ DiscIdle
    /\ SpaIdle
    /\ WidIdle
    /\ RunIdle

\* one element with inputs and buttons, any read on it may fail
InitExtract ==
    /\ variant = "tcg"
    /\ SynthIdle
    /\ GenIdle
    /\ ExtStart({Element(f, i, b) : f \in FailPoints, i \in SeqsUpTo(Inputs, MaxInputs),
                                    b \in SeqsUpTo(FewButtons, MaxButtons)})
    /\ DiscIdle
    /\ SpaIdle
    /\ WidIdle
    /\ RunIdle

\* one element holding a single button of any shape
InitControl ==
    /\ variant = "tcg"
    /\ SynthIdle
    /\ GenIdle
    /\ ExtStart({Element("none", <<>>, <<b>>) : b \in AllButtons})
    /\ DiscIdle
    /\ SpaIdle
    /\ WidIdle
    /\ RunIdle

\* a crawler is pointed at one page
InitDisc ==
    /\ variant = "tcg"
    /\ SynthIdle
    /\ GenIdle
    /\ ExtIdle
    /\ DiscStart
    /\ SpaIdle
    /\ WidIdle
    /\ RunIdle

SpecCls == InitCls /\ [][NextSynth]_vars

SpecSynth == InitSynth /\ [][NextSynth]_vars

SpecGen == InitGen /\ [][NextGen]_vars

SpecExtract == InitExtract /\ [][NextExt]_vars

SpecControl == InitControl /\ [][NextExt]_vars

SpecDisc == InitDisc /\ [][NextDisc]_vars

\* trigger exploration of spa_form_extractor
InitSpa ==
    /\ variant = "tcg"
    /\ SynthIdle
    /\ GenIdle
    /\ ExtIdle
    /\ DiscIdle
    /\ SpaStart({"spa_fe"}, ExploreSites)
    /\ WidIdle
    /\ RunIdle

\* the trigger filter of spa_form_extractor
InitFilter ==
    /\ variant = "tcg"
    /\ SynthIdle
    /\ GenIdle
    /\ ExtIdle
    /\ DiscIdle
    /\ SpaStart({"spa_fe"}, FilterSites)
    /\ WidIdle
    /\ RunIdle

\* the processing loops of both SPA modules
InitCap ==
    /\ variant = "tcg"
    /\ SynthIdle
    /\ GenIdle
    /\ ExtIdle
    /\ DiscIdle
    /\ SpaStart(SpaVariants, CapSites)
    /\ WidIdle
    /\ RunIdle

\* either SPA module from the url to the end of its main
InitPipe ==
    /\ variant = "spa"
    /\ SynthIdle
    /\ GenIdle
    /\ ExtIdle
    /\ DiscIdle
    /\ SpaStart(SpaVariants, PipeSites)
    /\ WidIdle
    /\ RunIdle

NextPipe ==
    \/ /\ SpaNavigate \/ SpaDiscover \/ CollectTriggers \/ ClickTrigger \/ SpaReturn
       /\ UNCHANGED <<variant, synthVars, genVars, extVars, discVars, widVars, runVars>>
    \/ /\ SpaMain
       /\ UNCHANGED <<variant, synthVars, extVars, discVars, spaVars, widVars, runVars>>
    \/ /\ ProcessForm \/ FinishMain
       /\ UNCHANGED <<variant, synthVars, extVars, discVars, spaVars, widVars, runVars>>

\* the widgets of one form of test_case_generator
InitWid ==
    /\ variant = "tcg"
    /\ SynthIdle
    /\ GenIdle
    /\ ExtIdle
    /\ DiscIdle
    /\ SpaIdle
    /\ WidStart
    /\ RunIdle

SpecWid == InitWid /\ [][NextWid]_vars

SpecPipe == InitPipe /\ [][NextPipe]_vars

SpecSpa == InitSpa /\ [][NextSpa]_vars

SpecFilter == InitFilter /\ [][NextSpa]_vars

SpecCap == InitCap /\ [][NextSpa]_vars

\* the numbering of the Schemas in either SPA module
InitIds ==
    /\ variant = "tcg"
    /\ SynthIdle
    /\ GenIdle
    /\ ExtIdle
    /\ DiscIdle
    /\ SpaStart(SpaVariants, IdSites)
    /\ WidIdle
    /\ RunIdle

SpecIds == InitIds /\ [][NextSpa]_vars

NextRun ==
    /\ CountFile \/ RunFile \/ RecordResult \/ FinishRun
    /\ UNCHANGED <<variant, synthVars, genVars, extVars, discVars, spaVars, widVars>>

\* either runner from the end of discovery to the end of its loop
InitRun ==
    /\ variant = "tcg"
    /\ SynthIdle
    /\ GenIdle
    /\ ExtIdle
    /\ DiscIdle
    /\ SpaIdle
    /\ WidIdle
    /\ RunStart

SpecRun == InitRun /\ [][NextRun]_vars

(***************************************************************************)
(* Claims about selector synthesis and implementation synthesis            *)
(***************************************************************************)
GenericRoles      == {"input", "button", "select", "textarea", "form"}
SearchRoles       == {"search_input", "search_button", "results"}
LoginRoles        == {"username", "password", "login_button"}
ContactRoles      == {"name", "email", "message", "submit"}
RegistrationRoles == {"name", "email", "password", "confirm_password", "submit"}

AddedRoles == DOMAIN form_selectors \ GenericRoles

\* the test cases carry only the TestDescriptor fields and one of the six categories
PlainCases ==
    \A i \in 1..Len(test_data.test_cases) :
        /\ test_data.test_cases[i].form_type = <<>>
        /\ test_data.test_cases[i].test_type \in TestTypes

\* C1: in test_case_generator.py, for every form-type label and every test case of
\* one of the six categories, generate_test_implementations run against the
\* selectors of generate_form_selectors for that label raises nothing and leaves
\* a body for the test case.
C1_SynthesisTotal ==
    (variant = "tcg" /\ PlainCases) =>
        /\ syn_pc # "raised"
        /\ syn_pc \in {"implementations", "script"} =>
              \A i \in 1..Len(test_data.test_cases) :
                  /\ test_data.test_cases[i].test_id \in DOMAIN test_implementations
                  /\ test_implementations[test_data.test_cases[i].test_id].kind = "body"

\* C3: whatever the label, the selector set holds the five generic roles, and the
\* roles added to them are those of exactly one form type (none for unknown).
C3_ClassificationTotal ==
    syn_pc # "start" =>
        /\ GenericRoles \subseteq DOMAIN form_selectors
        /\ \A r \in GenericRoles : form_selectors[r] = GenericSelectors[r]
        /\ AddedRoles \in {{}, SearchRoles, LoginRoles, ContactRoles, RegistrationRoles}

\* C3 witness: a label holding two type keywords has been classified, and only the
\* search roles were added.
C3_Witness ==
    /\ syn_pc = "selectors"
    /\ Contains(Lower(test_data.form_type), kwSearch)
    /\ Contains(Lower(test_data.form_type), kwLogin)
    /\ AddedRoles = SearchRoles

\* C4: in both generator modules the roles added are decided by the first keyword,
\* in the order search, login, contact, registration, that the lowercased label
\* contains; a label with none of them adds nothing.
C4_RolesPerType ==
    syn_pc # "start" =>
        LET label == Lower(test_data.form_type) IN
        AddedRoles = IF Contains(label, kwSearch) THEN SearchRoles
                     ELSE IF Contains(label, kwLogin) THEN LoginRoles
                     ELSE IF Contains(label, kwContact) THEN ContactRoles
                     ELSE IF Contains(label, kwRegistration) THEN RegistrationRoles
                     ELSE {}

(***************************************************************************)
(* Claims about the text-generation boundary                               *)
(***************************************************************************)
\* The text inside an optional markdown code fence: surrounding whitespace, an
\* opening fence with or without the json tag and a closing fence removed.
Payload(content) ==
    LET c0 == Strip(content)
        c1 == IF StartsWith(c0, FenceJson) THEN SubSeq(c0, 8, Len(c0))
              ELSE IF StartsWith(c0, Fence) THEN SubSeq(c0, 4, Len(c0))
              ELSE c0
        c2 == IF EndsWith(c1, Fence) THEN SubSeq(c1, 1, Len(c1) - 3) ELSE c1
    IN  Strip(c2)

\* the document is the single-item fallback: one test case, TC001, positive, and a
\* form_type for which both selector synthesizers add no type-specific role
IsFallback(doc) ==
    /\ doc.kind = "dict"
    /\ Len(doc.test_cases) = 1
    /\ doc.test_cases[1].test_id = "TC001"
    /\ doc.test_cases[1].test_type = "positive"
    /\ \A v \in Variants : DOMAIN generate_form_selectors(v, doc) = GenericRoles

\* C6: when the content of the response, taken out of its code fence, is not a JSON
\* text, generate_test_cases returns the fallback document.
C6_FallbackOnBadJson ==
    (response.kind = "content" /\ ~IsJson(Payload(response.content))) =>
        IsFallback(gen_result)

\* C6 witness: a response whose JSON is cut short was answered and the loop of main
\* went on with the fallback document appended.
C6_Witness ==
    /\ response.kind = "content"
    /\ Payload(response.content) \in TruncatedTexts
    /\ IsFallback(gen_result)
    /\ gen_pc = "loop"
    /\ gen_i >= 1
    /\ all_test_data[gen_i] = gen_result

\* C7: when the call to the service fails or the message has no content,
\* generate_test_cases returns the fallback document and main is not left by an
\* exception.
C7_ServiceFailureNotFatal ==
    response.kind \in {"raise", "none"} =>
        /\ gen_pc # "raised"
        /\ IsFallback(gen_result)

\* C8: a response holding a JSON text in a code fence, with or without a language
\* tag, gives the value of that text; the fallback is returned only when the text
\* inside the fence is not JSON.
C8_FenceTolerance ==
    response.kind = "content" =>
        LET text == Payload(response.content) IN
        IF IsJson(text) THEN gen_result = json_loads(text) ELSE IsFallback(gen_result)

(***************************************************************************)
(* Claims about Schema extraction                                          *)
(***************************************************************************)
\* the text of an extracted button: Crawler_dynamic keeps the label itself, the SPA
\* extractors keep a dict with a text entry
ButtonText(v, entry) == IF v = "dyn" THEN entry ELSE entry.text

\* the precedence of the claim: trimmed inner text, value, name, id, class holding
\* the button-like token, type
ExpectedLabel(btn) ==
    IF Strip(btn.inner_text) # <<>> THEN Strip(btn.inner_text)
    ELSE IF Truthy(btn.value) THEN btn.value \o <<" ","(","v","a","l","u","e",")">>
    ELSE IF Truthy(btn.name) THEN btn.name \o <<" ","(","n","a","m","e",")">>
    ELSE IF Truthy(btn.id) THEN btn.id \o <<" ","(","i","d",")">>
    ELSE IF Truthy(btn.class) /\ Contains(btn.class, <<"b","t","n">>)
         THEN <<"B","u","t","t","o","n"," ","(">> \o btn.class \o <<")">>
    ELSE <<"B","u","t","t","o","n"," ","(">>
         \o (IF Truthy(btn.type) THEN btn.type ELSE <<"u","n","k","n","o","w","n">>) \o <<")">>

\* C5: in Crawler_dynamic and in spa_test_case_generator.extract_form_data, the text
\* recorded for a button all of whose reads succeed is the first applicable of
\* inner text, value, name, id, class-derived label, type-derived label, and it is
\* never empty.
C5_ControlTextPrecedence ==
    (/\ ext_pc = "done"
     /\ ext_variant \in {"dyn", "spa_tcg"}
     /\ Len(element.buttons) = 1
     /\ element.buttons[1].fails = "none") =>
        /\ ext_result.status = "returned"
        /\ Len(ext_result.schema.buttons) = 1
        /\ ButtonText(ext_variant, ext_result.schema.buttons[1]) = ExpectedLabel(element.buttons[1])
        /\ ButtonText(ext_variant, ext_result.schema.buttons[1]) \notin {<<>>, None}

\* C9: extract_form_data of either SPA module returns a Schema for every element,
\* and when a read on the element fails the Schema carries url, form_id and error
\* with empty inputs and buttons and counts of 0.
C9_ExtractNeverRaises ==
    (ext_pc = "done" /\ ext_variant \in {"spa_tcg", "spa_fe"}) =>
        /\ ext_result.status = "returned"
        /\ {"form_id", "inputs", "buttons"} \subseteq DOMAIN ext_result.schema
        /\ element.fail_at # "none" =>
              /\ {"url", "form_id", "error"} \subseteq DOMAIN ext_result.schema
              /\ ext_result.schema.inputs = <<>>
              /\ ext_result.schema.buttons = <<>>
              /\ ext_result.schema.input_count = 0
              /\ ext_result.schema.button_count = 0

(***************************************************************************)
(* Claims about candidate discovery                                        *)
(***************************************************************************)
\* the position of a handle in the concatenated matches
Pos(h) == CHOOSE i \in 1..Len(disc_forms) : disc_forms[i] = h

\* the positions at which the dedup loop read signature sig
PositionsOf(sig) == {i \in 1..Len(disc_forms) : sig_reads[i] = sig}

\* C2: after the dedup loop, of the candidates read with one signature exactly one
\* survives, it is the first of them in concatenation order, and the survivors
\* stand in concatenation order.  (A candidate whose signature read raised has no
\* signature and does not survive.)
C2_DedupKeepsFirst ==
    disc_pc \in {"unique", "returned"} =>
        /\ \A j \in 1..Len(unique_forms) :
              /\ \E i \in 1..Len(disc_forms) : disc_forms[i] = unique_forms[j]
              /\ sig_reads[Pos(unique_forms[j])] # ReadFailed
        /\ \A j, k \in 1..Len(unique_forms) :
              j < k => Pos(unique_forms[j]) < Pos(unique_forms[k])
        /\ \A i \in 1..Len(disc_forms) :
              sig_reads[i] # ReadFailed =>
                 LET survivors == {j \in 1..Len(unique_forms) :
                                     sig_reads[Pos(unique_forms[j])] = sig_reads[i]}
                 IN /\ Cardinality(survivors) = 1
                    /\ \A j \in survivors :
                          \A p \in PositionsOf(sig_reads[i]) : Pos(unique_forms[j]) <= p

\* two strategies matched candidates of one signature on two different nodes, and
\* another signature survives as well
C2_Witness ==
    /\ disc_pc = "unique"
    /\ Len(unique_forms) >= 2
    /\ \E i, j \in 1..Len(disc_forms) :
          /\ i < j
          /\ sig_reads[i] # ReadFailed
          /\ sig_reads[i] = sig_reads[j]
          /\ disc_forms[i].strategy # disc_forms[j].strategy
          /\ disc_forms[i].node # disc_forms[j].node

\* C10: in Crawler_dynamic, when the query of one strategy raises, discovery still
\* goes on and the list of candidates holds the matches of every other strategy.
C10_StrategyIsolation ==
    (disc_variant = "dyn" /\ failed_strategy # 0) =>
        /\ disc_pc # "raised"
        /\ \A k \in (1..NStrategies(disc_variant)) \ {failed_strategy} :
              \A i \in 1..Len(dom) :
                 Matches(k, dom[i]) =>
                    \E p \in 1..Len(disc_forms) : disc_forms[p] = [strategy |-> k, node |-> i]

\* C11: in Crawler_dynamic, when the page fails to load, extract_forms_from_url
\* returns an empty list: no exception reaches the caller and no candidate query
\* runs.
C11_NavigationFailure ==
    [][(disc_pc = "start" /\ disc_pc' # "loaded") =>
          (disc_pc' = "returned" /\ data' = <<>> /\ disc_forms' = <<>>)]_vars

(***************************************************************************)
(* Claims about SPA discovery and trigger exploration                      *)
(***************************************************************************)
\* no node of the site is matched by a query whose matches become Schemas, and no
\* trigger changes the page
NothingToFind ==
    /\ \A i \in 1..Len(site.dom) :
          /\ \A k \in {1, 2, 3, 5} : ~SpaMatches(k, site.dom[i])
          /\ site.dom[i].kind \notin {"form", "modal"}
    /\ \A t \in 1..Len(site.triggers) : site.triggers[t].effect = "none"

\* C12: on a site where nothing is to be found, extract_spa_forms returns an empty
\* list and main ends without a Schema, a descriptor document, a test unit or an
\* exception.
C12_EmptyPage ==
    (NothingToFind /\ spa_pc = "returned") =>
        /\ forms_data = <<>>
        /\ gen_pc \in {"idle", "no_forms"}
        /\ forms = <<>>
        /\ all_test_data = <<>>
        /\ script = <<>>
        /\ gen_exc = "none"

\* spa_form_extractor loaded a page holding only a button group, clicked its trigger,
\* found nothing, and main ended on the empty list
C12_Witness ==
    /\ NothingToFind
    /\ spa_variant = "spa_fe"
    /\ site.dom # <<>>
    /\ spa_failed = 0
    /\ clicks # <<>>
    /\ gen_pc = "no_forms"

\* whether p is an initial segment of q
IsPrefix(p, q) == Len(p) <= Len(q) /\ SubSeq(q, 1, Len(p)) = p

\* C14: the list spa_form_extractor.extract_spa_forms returns starts with every
\* Schema it had collected when trigger exploration began, in the same order,
\* whatever happened during the exploration.
C14_ExplorationSuperset ==
    (spa_variant = "spa_fe" /\ spa_pc = "returned") => IsPrefix(initial_data, forms_data)

\* C15: every trigger click of spa_form_extractor.extract_spa_forms is attempted
\* with the page at the origin URL, also after an iteration that ended in an
\* exception.
C15_ReturnToOrigin ==
    \A c \in 1..Len(clicks) : clicks[c].url = "origin"

\* the structural signature a Schema carries: the inner markup of its element
HasSignature(schema) == "html_snippet" \in DOMAIN schema

\* C16: the list spa_form_extractor.extract_spa_forms returns never holds two
\* Schemas of candidates with the same signature: what the query after a click
\* finds is merged by signature, so a form found before the click is not added
\* again.
C16_MergeBySignature ==
    (spa_variant = "spa_fe" /\ spa_pc = "returned") =>
        \A i, j \in 1..Len(forms_data) :
            (i < j /\ HasSignature(forms_data[i]) /\ HasSignature(forms_data[j])) =>
                forms_data[i].html_snippet # forms_data[j].html_snippet

\* C17: one run of spa_form_extractor.extract_spa_forms attempts at most 3 trigger
\* clicks, each on a different trigger whose visible text, lower-cased, contains a
\* keyword of the vocabulary.
C17_TriggerBound ==
    /\ Len(clicks) <= 3
    /\ \A c \in 1..Len(clicks) :
          LET text == site.triggers[clicks[c].trigger].text
          IN /\ site.triggers[clicks[c].trigger].readable
             /\ \E kw \in Keywords : Contains(Lower(text), kw)
    /\ \A c, d \in 1..Len(clicks) : c < d => clicks[c].trigger < clicks[d].trigger

\* more than three triggers passed the filter, three were clicked and the run is over
C17_Witness ==
    /\ spa_pc = "returned"
    /\ spa_failed = 0
    /\ Len(form_triggers) > 3
    /\ Len(clicks) = 3

\* C18: in spa_form_extractor.extract_spa_forms a click that raises ends neither
\* the loop nor the run: once the loop is over every trigger up to the bound has
\* been attempted in turn, and what was collected before each attempt is still in
\* the list, which is what is returned.
C18_FailingTriggerSkipped ==
    /\ \A c \in 1..Len(clicks) :
          /\ clicks[c].trigger = form_triggers[c]
          /\ IsPrefix(clicks[c].had, forms_data)
    /\ (spa_pc = "returned" /\ spa_failed = 0 /\ page_url # "blank") =>
          Len(clicks) = Min(3, Len(form_triggers))

\* the first click raised with a Schema already collected, a later click was
\* attempted and found a new form, and the run returned
C18_Witness ==
    /\ spa_pc = "returned"
    /\ Len(clicks) >= 2
    /\ clicks[1].fail = "click"
    /\ clicks[1].had # <<>>
    /\ Len(forms_data) > Len(clicks[1].had)

\* the Schemas of the initial discovery whose form_id starts with a prefix
WithPrefix(prefix) == SelectSeq(initial_data, LAMBDA d : d.form_id[1] = prefix)

\* C19: in both SPA modules the Schemas made from strategy 3 are those of its first
\* five matches at most, in query order, named input_container_1..k, and every
\* match of strategies 1, 2 and 5 still gets its Schema.
C19_InputContainerCap ==
    (spa_pc \in {"processed", "clicking", "returned"} /\ spa_failed = 0 /\ page_url # "blank") =>
        LET containers == spa_query(3, site.dom)
            made       == WithPrefix("input_container")
        IN /\ Len(made) <= 5
           /\ Len(made) = Min(5, Len(containers))
           /\ \A k \in 1..Len(made) :
                 /\ made[k].form_id = FormId("input_container", k)
                 /\ HasSignature(made[k]) = ~containers[k].broken
                 /\ HasSignature(made[k]) => made[k].html_snippet = containers[k].markup
           /\ Len(WithPrefix("traditional_form")) = Len(spa_query(1, site.dom))
           /\ Len(WithPrefix("form_like")) = Len(spa_query(2, site.dom))
           /\ Len(WithPrefix("modal_form")) = Len(spa_query(5, site.dom))
           /\ Len(initial_data) = Len(made) + Len(spa_query(1, site.dom))
                                  + Len(spa_query(2, site.dom)) + Len(spa_query(5, site.dom))

\* strategy 3 matched more than five nodes, the sixth of them a modal that strategy
\* 5 matched too, on a page that also holds a form
C19_Witness ==
    /\ spa_pc = "returned"
    /\ spa_failed = 0
    /\ page_url # "blank"
    /\ Len(spa_query(3, site.dom)) > 5
    /\ spa_query(3, site.dom)[6].kind = "modal"
    /\ Len(spa_query(1, site.dom)) = 1
    /\ Len(WithPrefix("input_container")) = 5
    /\ Len(WithPrefix("modal_form")) = 1

\* C20: in spa_test_case_generator.extract_form_data a failing attribute read on an
\* input or a button leaves the field in the Schema, so the Schema holds as many
\* inputs and buttons as the element, in order, each with the attributes that
\* could be read.
C20_PerFieldBestEffort ==
    (ext_pc = "done" /\ ext_variant = "spa_tcg" /\ element.fail_at = "none") =>
        /\ Len(ext_result.schema.inputs) = Len(element.inputs)
        /\ Len(ext_result.schema.buttons) = Len(element.buttons)
        /\ \A i \in 1..Len(element.inputs) :
              element.inputs[i].fails # "type" =>
                 ext_result.schema.inputs[i].type = element.inputs[i].type
        /\ \A b \in 1..Len(element.buttons) :
              element.buttons[b].fails # "type" =>
                 ext_result.schema.buttons[b].type = element.buttons[b].type

(***************************************************************************)
(* Claims about custom widgets                                             *)
(***************************************************************************)
\* the widgets none of whose reads raises
ReadableWidgets == SelectSeq(custom_widgets, LAMBDA w : w.fails \notin WidgetReads(w))

\* C13: the sub-attribute mapping recorded for a widget has exactly the keys min,
\* max, step for type range, exactly accept, multiple for type file, exactly min,
\* max for type date, and no key for any other type or a missing type; each key
\* carries the value of the attribute.
C13_WidgetSubAttributes ==
    wid_pc = "done" =>
        /\ Len(widget_info) = Len(ReadableWidgets)
        /\ \A k \in 1..Len(widget_info) :
              LET w    == ReadableWidgets[k]
                  keys == DOMAIN widget_info[k].attributes
              IN /\ widget_info[k].type = w.type
                 /\ w.type = tRange => keys = {"min", "max", "step"}
                 /\ w.type = tFile => keys = {"accept", "multiple"}
                 /\ w.type = tDate => keys = {"min", "max"}
                 /\ w.type \notin {tRange, tFile, tDate} => keys = {}
                 /\ \A key \in keys : widget_info[k].attributes[key] = w[key]

\* a date widget with a step attribute and no min attribute was recorded
C13_Witness ==
    /\ wid_pc = "done"
    /\ Len(widget_info) = 1
    /\ custom_widgets[1].type = tDate
    /\ custom_widgets[1].step # None
    /\ custom_widgets[1].min = None

(***************************************************************************)
(* Claims about the recipes                                                *)
(***************************************************************************)
\* the test case at position i is the last one that carries its test_id, so the
\* implementation stored under that test_id was synthesized from it
LastWithId(i) ==
    \A j \in (i + 1)..Len(test_data.test_cases) :
        test_data.test_cases[j].test_id # test_data.test_cases[i].test_id

\* C21: for a test case of category positive that carries only the descriptor
\* fields, the implementation synthesized against a selector set with the search
\* roles is the search recipe (it reads the search_input, search_button and
\* results selectors), against a selector set with the login roles it is the
\* login recipe (username, password, login_button), and it is the default recipe
\* only for the other selector sets.
C21_PositiveUsesPrimaryRole ==
    syn_pc \in {"implementations", "script"} =>
        \A i \in 1..Len(test_data.test_cases) :
            LET tc == test_data.test_cases[i] IN
            (tc.test_type = "positive" /\ tc.form_type = <<>> /\ LastWithId(i)) =>
                LET body == test_implementations[tc.test_id] IN
                IF SearchRoles \subseteq DOMAIN form_selectors
                THEN body.recipe = "positive_search" /\ DOMAIN body.uses = SearchRoles
                ELSE IF LoginRoles \subseteq DOMAIN form_selectors
                THEN body.recipe = "positive_login" /\ DOMAIN body.uses = LoginRoles
                ELSE body.recipe = "default"

\* the positions of the test cases whose generator raises against form_selectors
RaisingCases ==
    {i \in 1..Len(test_data.test_cases) :
        Dispatch(variant, test_data.test_cases[i], form_selectors).kind = "KeyError"}

\* C22: generate_test_implementations is never left by an exception raised for a
\* test case of category accessibility, and the body stored for such a test case
\* is the accessibility recipe reading one input selector: search_input when the
\* selector set has it, the generic input when the set has no type-specific role,
\* and otherwise the generic input or a role of the set's type.
C22_AccessibilityInputResolution ==
    /\ syn_pc = "raised" =>
          \A i \in RaisingCases :
              (\A j \in RaisingCases : i <= j) =>
                  test_data.test_cases[i].test_type # "accessibility"
    /\ syn_pc \in {"implementations", "script"} =>
          \A i \in 1..Len(test_data.test_cases) :
              LET tc == test_data.test_cases[i] IN
              (tc.test_type = "accessibility" /\ LastWithId(i)) =>
                  LET body == test_implementations[tc.test_id] IN
                  /\ body.recipe = "accessibility"
                  /\ \E r \in DOMAIN form_selectors :
                        /\ DOMAIN body.uses = {r}
                        /\ body.uses[r] = form_selectors[r]
                        /\ "search_input" \in DOMAIN form_selectors => r = "search_input"
                        /\ AddedRoles = {} => r = "input"
                        /\ r \in AddedRoles \cup {"input"}

\* the pairs of (inferred form type, category) for which no specific recipe is
\* written: a category outside the six, positive for a type other than search
\* and login, and negative, edge_case and dynamic for a type other than search
NoSpecificRecipe(tc) ==
    \/ tc.test_type \notin TestTypes
    \/ tc.test_type = "positive" /\ AddedRoles \notin {SearchRoles, LoginRoles}
    \/ tc.test_type \in {"negative", "edge_case", "dynamic"} /\ AddedRoles # SearchRoles

\* C23: the script written by create_test_script holds one unit per test case, in
\* the order of test_cases, and the unit of a test case whose (form type,
\* category) pair has no specific recipe carries the default recipe, which reads
\* the form, input and button selectors only.
C23_DefaultRecipe ==
    syn_pc = "script" =>
        /\ Len(script) = Len(test_data.test_cases)
        /\ \A i \in 1..Len(script) :
              LET tc == test_data.test_cases[i] IN
              /\ script[i].test_id = tc.test_id
              /\ script[i].test_type = tc.test_type
              /\ NoSpecificRecipe(tc) =>
                    /\ script[i].implementation.recipe = "default"
                    /\ DOMAIN script[i].implementation.uses = {"form", "input", "button"}

\* C24: in both generator modules the unit emitted for a test case of category
\* validation (the last one carrying its test_id) has the validation recipe as
\* its body, not the default recipe.
C24_ValidationRecipe ==
    syn_pc = "script" =>
        \A i \in 1..Len(script) :
            (test_data.test_cases[i].test_type = "validation" /\ LastWithId(i)) =>
                script[i].implementation.recipe = "validation"

(***************************************************************************)
(* Claims about the pipeline of main                                       *)
(***************************************************************************)
\* C25: the per-form loop of spa_test_case_generator.main is never left by an
\* exception while it processes a Schema that extract_form_data returned from its
\* except branch (the Schema without html_snippet).
C25_ErrorSchemaAccepted ==
    (spa_variant = "spa_tcg" /\ gen_pc = "raised") => forms[gen_i + 1].html_snippet

\* the body synthesized from the test case at position i alone: what the chain of
\* generate_test_implementations selects for its category, the default recipe
\* when the chain has no branch for it
OwnImplementation(i) ==
    LET tc == test_data.test_cases[i]
        r  == Dispatch(variant, tc, form_selectors)
    IN  IF r.kind = "none" THEN generate_default_implementation(tc, form_selectors) ELSE r

\* C26: every unit of the emitted script carries the body synthesized from the
\* test case at its own position, also when another test case has the same
\* test_id.
C26_UnitCarriesOwnImplementation ==
    syn_pc = "script" =>
        \A i \in 1..Len(script) : script[i].implementation = OwnImplementation(i)

(***************************************************************************)
(* Claims about the tie-break of the classification                        *)
(***************************************************************************)
\* the type keywords a label holds once lowercased
KeywordsIn(label) ==
    {kw \in {kwSearch, kwLogin, kwContact, kwRegistration} : Contains(Lower(label), kw)}

\* the type selectors chosen from a set of keywords by the precedence search,
\* login, contact, registration
ChosenSelectors(kws) ==
    IF kwSearch \in kws THEN SearchSelectors
    ELSE IF kwLogin \in kws THEN LoginSelectors
    ELSE IF kwContact \in kws THEN ContactSelectors
    ELSE IF kwRegistration \in kws THEN RegistrationSelectors
    ELSE EmptyDict

\* C27: in test_case_generator.py the selector set of a label is the generic
\* roles updated with the roles of one type only, the first of search, login,
\* contact, registration whose keyword the label holds in any letter case; and
\* every label holding the same keywords, wherever they stand in it, gets the
\* same selector set.
C27_TieBreak ==
    (variant = "tcg" /\ syn_pc # "start") =>
        LET kws == KeywordsIn(test_data.form_type) IN
        /\ form_selectors = Update(GenericSelectors, ChosenSelectors(kws))
        /\ AddedRoles = DOMAIN ChosenSelectors(kws)
        /\ \A other \in Labels :
              KeywordsIn(other) = kws =>
                  tcg_generate_form_selectors([form_type |-> other]) = form_selectors

\* C27 witness: a label that starts with the login keyword in capitals and holds
\* the search keyword after it has been classified as a search form.
C27_Witness ==
    /\ variant = "tcg"
    /\ syn_pc = "selectors"
    /\ ~Contains(test_data.form_type, kwLogin)
    /\ Len(test_data.form_type) > Len(kwLogin)
    /\ Lower(SubSeq(test_data.form_type, 1, Len(kwLogin))) = kwLogin
    /\ Contains(test_data.form_type, kwSearch)
    /\ form_selectors = Update(GenericSelectors, SearchSelectors)

(***************************************************************************)
(* Claims about the test runners                                           *)
(***************************************************************************)
\* C28: when run_single_test_file (run_single_fixed_test in the fixed runner) has
\* returned, whatever the outcome of the child process, the working directory is
\* the one the call started in; and as long as only these functions have run,
\* the chdir into the directory of a test file never fails.
C28_WorkingDirectoryRestored ==
    (run_pc = "ran" /\ ~IsWorkingTest(run_variant, test_files[run_i + 1])) =>
        /\ cwd = original_dir
        /\ (\A k \in 1..run_i : ~IsWorkingTest(run_variant, test_files[k])) =>
              ("error" \in DOMAIN run_result => run_result.error # "FileNotFoundError")

\* C30: between two files of run_all_tests and at the end of the loop, passed
\* plus failed equals total_tests equals the number of recorded results, the
\* results are those of the files processed so far in order, passed counts the
\* successful ones, failed the others (timeouts and exceptions included), and
\* errors is 0.
C30_RunnerTally ==
    (run_variant = "all" /\ run_pc \in {"loop", "done"}) =>
        /\ results.passed + results.failed = results.total_tests
        /\ results.total_tests = Len(results.test_files)
        /\ Len(results.test_files) = run_i
        /\ \A k \in 1..run_i : results.test_files[k].file = test_files[k]
        /\ results.passed = Cardinality({k \in 1..run_i : results.test_files[k].success})
        /\ results.failed = Cardinality({k \in 1..run_i : ~results.test_files[k].success})
        /\ \A k \in 1..run_i :
              "error" \in DOMAIN results.test_files[k] => ~results.test_files[k].success
        /\ results.errors = 0

\* C30 witness: run_all_tests has finished a run of two files, one that passed and
\* one that timed out, and the timeout is counted under failed.
C30_Witness ==
    /\ run_variant = "all"
    /\ run_pc = "done"
    /\ results.total_tests = 2
    /\ results.passed = 1
    /\ results.failed = 1
    /\ \E k \in 1..2 : /\ "error" \in DOMAIN results.test_files[k]
                       /\ results.test_files[k].error = "Timeout"

(***************************************************************************)
(* Claims about the numbering of the Schemas                               *)
(***************************************************************************)
\* the strategy tags in the order the processing loops run
StrategyTags == <<"traditional_form", "form_like", "input_container", "modal_form", "dynamic_form">>

TagRank(tag) == CHOOSE r \in 1..Len(StrategyTags) : StrategyTags[r] = tag

\* the group a form_id counts in: its tag, and for a dynamic form also the
\* ordinal of its trigger
IdGroup(id) == IF id[1] = "dynamic_form" THEN <<id[1], id[3]>> ELSE <<id[1]>>

\* the ordinal a form_id ends with, as text
IdOrdinal(id) == IF id[1] = "dynamic_form" THEN SubSeq(id, 5, Len(id)) ELSE SubSeq(id, 3, Len(id))

\* C29: in the list extract_spa_forms returns, the form_ids are pairwise distinct;
\* the tags appear in the order traditional_form, form_like, input_container,
\* modal_form, dynamic_form, the dynamic forms in the order of their triggers;
\* and the k-th Schema of a tag (of a trigger, for dynamic forms) has ordinal k.
C29_FormIdUniqueOrdered ==
    spa_pc = "returned" =>
        LET n      == Len(forms_data)
            id(k)  == forms_data[k].form_id
        IN  /\ \A k \in 1..n : \A l \in 1..n : k # l => id(k) # id(l)
            /\ \A k \in 1..n : id(k)[1] \in {StrategyTags[r] : r \in 1..Len(StrategyTags)}
            /\ \A k \in 1..n : \A l \in (k + 1)..n :
                  /\ TagRank(id(k)[1]) <= TagRank(id(l)[1])
                  /\ (id(k)[1] = "dynamic_form" /\ id(l)[1] = "dynamic_form") =>
                        \E a \in 1..TriggersClicked : \E b \in a..TriggersClicked :
                            id(k)[3] = Digit(a) /\ id(l)[3] = Digit(b)
            /\ \A k \in 1..n :
                  IdOrdinal(id(k)) =
                      Str(Cardinality({l \in 1..k : IdGroup(id(l)) = IdGroup(id(k))}))

\* C29 witness: a returned list that holds Schemas of two static strategies and,
\* for each of two triggers, at least two dynamic forms.
C29_Witness ==
    /\ spa_pc = "returned"
    /\ \E k \in 1..Len(forms_data) : forms_data[k].form_id = FormId("traditional_form", 1)
    /\ \E k \in 1..Len(forms_data) : forms_data[k].form_id = FormId("input_container", 1)
    /\ \E k \in 1..Len(forms_data) : forms_data[k].form_id = DynamicFormId(1, 2)
    /\ \E k \in 1..Len(forms_data) : forms_data[k].form_id = DynamicFormId(2, 2)

====
